---- MODULE Spec2Model ----
(***************************************************************************)
(* VoxCall: the VOX detection / recording state machine of VoxCallEngine   *)
(* (src/voxcall/engine.py) and the upload fan-out it dispatches            *)
(* (src/voxcall/upload/*.py, src/voxcall/cleanup.py).                      *)
(*                                                                         *)
(* Times are in tenths of a second, levels in hundredths of a level point. *)
(* A chunk of audio is represented by its peak amplitude.                  *)
(***************************************************************************)
EXTENDS Integers, Sequences, FiniteSets, TLC

\* ------------------------------------------------------------------ bounds

\* how many chunks the capture stream delivers before its read blocks for good
MaxReads == 8
\* time.time() when the engine is constructed, in seconds
StartTime == 1000

\* ------------------------------------------------------------ program constants

\* engine.py:114  "10 * 60" seconds between heartbeats
HeartbeatPeriod == 600
\* engine.py:136  debounce count that starts a recording
DebounceNeeded == 2
\* engine.py:123  idle ticks between two level-bar updates
BarEvery == 6

\* ------------------------------------------------------------------ inputs

\* peak amplitudes of the chunks the capture stream may deliver
Peaks == {0, 1000, 20000}

\* cfg.audio values the engine may be constructed with
Thresholds == {0, 75}
Rectimes == {10}
SilenceTimes == {5, 15}
TimeoutSecs == {1, 2}

AudioCfgs ==
    [record_threshold : Thresholds, rectime : Rectimes,
     vox_silence_time : SilenceTimes, timeout_time_sec : TimeoutSecs]

\* the default rectime of 0.1 s (config.py:17) with a silence time of 0.1 s
NameAudioCfg ==
    [record_threshold |-> 75, rectime |-> 1, vox_silence_time |-> 1,
     timeout_time_sec |-> 1]

\* thresholds of an engine whose levels a front end shows
MeterThresholds == {4, 75, 100}

MeterAudioCfgs ==
    [record_threshold : MeterThresholds, rectime : {10},
     vox_silence_time : {5}, timeout_time_sec : {2}]

\* ------------------------------------------------------------- LevelAnalyzer

Max(a, b) == IF a >= b THEN a ELSE b

\* levels.py peak(): max(abs(samples)), 0 for an empty chunk; a chunk is its peak
peak(c) == c

\* levels.py level_ui_value(): 100 - log10(p/32768)*10/-25*100 with p = max(peak, 1),
\* in hundredths (floor), tabulated for the peaks of Peaks
level_ui_value(c) ==
    LET p == Max(peak(c), 1)
    IN  CASE p = 1 -> -8062
          [] p = 1000 -> 3938
          [] p = 20000 -> 9142

\* levels.py level_ui_scale(): max(100 - int(log10(p/32768)*10/-25*100), 3)
level_ui_scale(c) ==
    LET p == Max(peak(c), 1)
        v == CASE p = 1 -> 100 - 180
               [] p = 1000 -> 100 - 60
               [] p = 20000 -> 100 - 8
    IN  Max(v, 3)

\* ------------------------------------------------------------ engine arithmetic

\* Python round(a / b) for a >= 0, b > 0: round half to even
\* a number of seconds as the exact fraction num / den
Seconds(n, d) == [num |-> n, den |-> d]

RECURSIVE Gcd(_, _)
Gcd(a, b) == IF b = 0 THEN a ELSE Gcd(b, a % b)

\* the fraction in lowest terms
Lowest(a) ==
    LET g == Gcd(a.num, a.den)
    IN  [num |-> a.num \div g, den |-> a.den \div g]

SameSeconds(a, b) == Lowest(a) = Lowest(b)

\* a + b over the least common denominator
PlusSeconds(a, b) ==
    LET l == (a.den \div Gcd(a.den, b.den)) * b.den
    IN  [num |-> a.num * (l \div a.den) + b.num * (l \div b.den), den |-> l]

\* stream.py:74  AudioStream.channels for a configured in_channel
Channels(ch) == IF ch \in {"left", "right"} THEN 2 ELSE 1

\* levels.py pick_channel(): samples[0::2], samples[1::2] or samples, by the
\* number of samples left of n
pick_channel(n, ch) ==
    IF ch = "left" THEN (n + 1) \div 2
    ELSE IF ch = "right" THEN n \div 2
    ELSE n

\* in_channel "mono" (config.py), on a device that negotiates 48000 Hz
DefaultCapture == [in_channel |-> "mono", channels |-> 1, rate |-> 48000]

RoundHalfEven(a, b) ==
    LET q == a \div b
        r == a % b
    IN  IF 2 * r < b THEN q
        ELSE IF 2 * r > b THEN q + 1
        ELSE IF q % 2 = 0 THEN q ELSE q + 1

\* engine.py:145-147  "x or default"
OrDefault(x, d) == IF x = 0 THEN d ELSE x

\* engine.py:150  silence_needed = max(1, int(round(vox_silence_time / rectime)))
silence_needed(c) ==
    Max(1, RoundHalfEven(OrDefault(c.vox_silence_time, 20), OrDefault(c.rectime, 1)))

\* engine.py:151  timeout_needed = max(1, int(round(timeout_time_sec / rectime)))
timeout_needed(c) ==
    Max(1, RoundHalfEven(10 * OrDefault(c.timeout_time_sec, 120), OrDefault(c.rectime, 1)))

\* engine.py:130  lvl > threshold or threshold == 0
AboveThreshold(c, thr) == level_ui_value(c) > 100 * thr \/ thr = 0

\* a quiet test without the threshold-0 case
BelowThreshold_ZeroToo(c, thr) == level_ui_value(c) < 100 * thr

\* engine.py:180  lvl < threshold and threshold != 0
BelowThreshold(c, thr) == level_ui_value(c) < 100 * thr /\ thr # 0

\* a trim that stops one chunk short
TrimTrailingSilence_OneShort(buf, sn) ==
    IF Len(buf) > sn THEN SubSeq(buf, 1, Len(buf) - sn + 1) ELSE buf

\* a trim that also takes a buffer of exactly sn chunks
TrimTrailingSilence_AtBoundary(buf, sn) ==
    IF Len(buf) >= sn THEN SubSeq(buf, 1, Len(buf) - sn) ELSE buf

\* a trim that takes the chunks from the front of the buffer
TrimTrailingSilence_FromFront(buf, sn) ==
    IF Len(buf) > sn THEN SubSeq(buf, sn + 1, Len(buf)) ELSE buf

\* engine.py:195-196  chunks[:-silence_needed] when len(chunks) > silence_needed
TrimTrailingSilence(buf, sn) ==
    IF Len(buf) > sn THEN SubSeq(buf, 1, Len(buf) - sn) ELSE buf

\* ----------------------------------------------------------------- strings

\* a Python str is a sequence of one-character strings
Blank == <<>>

\* str.strip()
Strip(s) ==
    LET I == {i \in 1..Len(s) : s[i] # " "}
    IN  IF I = {} THEN Blank
        ELSE SubSeq(s, CHOOSE i \in I : \A j \in I : i <= j,
                       CHOOSE i \in I : \A j \in I : i >= j)

\* truth value of a str: non-empty
Truthy(s) == s # Blank

\* str.split(" "): cut at every single space, empty tokens kept
RECURSIVE SplitSpace(_)
SplitSpace(s) ==
    LET I == {i \in 1..Len(s) : s[i] = " "}
    IN  IF I = {} THEN <<s>>
        ELSE LET i == CHOOSE k \in I : \A j \in I : k <= j
             IN  <<SubSeq(s, 1, i - 1)>> \o SplitSpace(SubSeq(s, i + 1, Len(s)))

\* str.endswith("DEV")
EndsWithDEV(s) ==
    Len(s) >= 3 /\ SubSeq(s, Len(s) - 2, Len(s)) = <<"D", "E", "V">>

\* float(s) succeeds: surrounding whitespace is ignored, the rest is a number
IsFloat(s) ==
    LET t == Strip(s)
    IN  t # Blank /\ \A i \in 1..Len(t) : t[i] = "1"

\* values a configuration field may hold
FieldStrings == {Blank, <<" ">>, <<"1">>, <<" ", "1">>, <<"k">>}

\* all strings over alphabet of length at most n
RECURSIVE StringsUpTo(_, _)
StringsUpTo(alphabet, n) ==
    IF n = 0 THEN {Blank}
    ELSE LET shorter == StringsUpTo(alphabet, n - 1)
         IN  shorter \cup {Append(t, a) : t \in shorter, a \in alphabet}

\* ------------------------------------------------------------------- state

VARIABLES
    cfg,                  \* cfg.audio of the engine
    pc,                   \* where the engine thread stands
    stop,                 \* VoxCallEngine._stop (threading.Event)
    streamOpen,           \* AudioStream._stream is set
    pa,                   \* AudioStream._pa is set: a PyAudio instance not yet terminated
    rec_debounce_counter, \* VoxCallEngine._rec_debounce_counter
    counter,              \* _loop: idle ticks since the last level-bar update
    last_api_attempt,     \* _loop: time of the last heartbeat or recording
    now,                  \* time.time(), seconds
    tenths,               \* the tenths of a second past now
    status,               \* last text given to hooks.set_status
    status_color,         \* last tag given to hooks.set_status_color
    surfaced,             \* what the current session gave the status hooks, in order
    bar,                  \* last value given to hooks.set_bar (0: none yet)
    quiet_chunks,         \* _handle_recording locals
    total_chunks,
    chunks,
    taken,                \* for each buffered chunk, the number of the read it came from
    timed_out,
    session,              \* number of calls of _handle_recording so far
    recFrom,              \* reads done when the session entered Recording
    start_time,           \* _handle_recording: time.time() when the session began, in tenths
    wavWritten,           \* sessions whose WAV file was written
    duration,             \* _handle_recording: len(samples) / rate of the last finalized session
    names,                \* pairs <<session, name>>: the rounded time in its WAV's name
    encoderCalled,        \* sessions handed to wav_to_mp3_m4a
    encoderFailed,        \* sessions whose encode raised
    threads,              \* threads started by the engine, in start order, each
                          \* with the requests it sent and the answers it read
    reads,                \* chunks delivered by the capture stream so far
    appended,             \* chunks appended to the buffer in this session
    exitBy,               \* what ended this session's recording loop
    idleRun,              \* consecutive above-threshold chunks read in Idle
    readsAfterStop,       \* chunks read since stop() was called
    appcfg,               \* the AppCfg the engine was constructed with
    clients,              \* the engine's BcfyClient, RdioClient (two), OpenMHzClient
    net,                  \* what the network may answer: "any" or "plain"
    deliverable,          \* chunks the capture stream delivers before it blocks
    delays,               \* seconds by which a read may return late
    hooks,                \* the UiHooks given to the engine: "none" or "faulty"
    fs,                   \* the file system: "sound", or "faulty" (copy/remove may fail)
    capture,              \* cfg.audio.in_channel now, and the channels and rate the stream opened with
    ini,                  \* the configuration file: none, or one with its keys and texts
    reloaded,             \* what load_config made of the file: none yet, or one configuration
    disk,                 \* the files present: pairs <<name, artifact>>
    lastBeat,             \* time of the last heartbeat dispatch (0: none yet)
    lastEnd,              \* time the last recording session ended (0: none yet)
    emitted,              \* value given to set_bar by the last tick (0: none)
    idleTicks,            \* chunks read in Idle since _loop began
    scaleTicks,           \* the idle ticks (by idleTicks) that showed a scaleLevel
    hookRaised,           \* a hook raised in the engine's last step
    ui,                   \* the presentation layers: threshold, and per layer pct and squelch
    ctl                   \* the VoxCallController: its engine, its thread, the threads it started

\* the state of the front ends, which no engine or upload step touches
frontVars == <<ui, ctl>>

vars ==
    <<cfg, pc, stop, streamOpen, pa, rec_debounce_counter, counter, last_api_attempt,
      now, tenths, status, status_color, surfaced, bar, quiet_chunks, total_chunks, chunks, taken,
      timed_out, session, recFrom, start_time, wavWritten, duration, names, encoderCalled, encoderFailed, threads,
      reads, appended, exitBy, idleRun, readsAfterStop, appcfg, clients,
      net, deliverable, delays, hooks, fs, capture, ini, reloaded, disk, lastBeat, lastEnd, emitted,
      idleTicks, scaleTicks, hookRaised, frontVars>>

engineVars ==
    <<cfg, pc, stop, streamOpen, pa, rec_debounce_counter, counter, last_api_attempt,
      now, tenths, status, status_color, surfaced, bar, quiet_chunks, total_chunks, chunks, taken,
      timed_out, session, recFrom, start_time, wavWritten, duration, names, encoderCalled, encoderFailed, reads,
      appended, exitBy, idleRun, readsAfterStop, appcfg, delays, hooks, fs, capture, ini, reloaded,
      lastBeat, lastEnd, emitted, idleTicks, scaleTicks, hookRaised>>

\* all but the front ends
backVars == <<engineVars, threads, clients, net, deliverable, disk>>

\* a status text and colour tag given to the hooks (engine.py:110-111, 159-160)
Shown(text, color) == [text |-> text, color |-> color]

Destinations == {"bcfy", "rdio", "icad", "openmhz"}
Targets == Destinations \cup {"cleanup"}

\* the args of the thread besides the file (engine.py:245-248)
TaskArgs(target) ==
    IF target = "bcfy" THEN <<duration>>
    ELSE IF target = "openmhz" THEN <<start_time, duration>>
    ELSE <<>>

\* threading.Thread(target=..., args=..., daemon=True).start()
StartThread(ths, sid, target) ==
    Append(ths, [sid |-> sid, target |-> target, st |-> "pending", sent |-> <<>>,
                 got |-> <<>>, args |-> TaskArgs(target)])

\* the name of session sid's WAV, and so of its MP3 and M4A (engine.py:212,
\* ffmpeg.py:13-14, cleanup.py:16-17); 0 when it wrote none
NameOf(sid) ==
    IF \E n \in names : n[1] = sid
    THEN (CHOOSE n \in names : n[1] = sid)[2]
    ELSE 0

\* the threads of session sid running target
ThreadsOf(sid, target) ==
    {i \in 1..Len(threads) : threads[i].sid = sid /\ threads[i].target = target}

\* ------------------------------------------------------ presentation layers

\* A level value handed to set_bar is [kind, v]: kind "num" is the number
\* v / 1000, kind "nan" is a float that is no number, kind "text" is a value
\* float() rejects.  Decibels are therefore thousandths of a dB.

\* controller.py:89-90, app.py:41-42
DB_MIN == -80000
DB_MAX == 0

\* controller.py:117, app.py:70
sql_hyst == 3

Min(a, b) == IF a <= b THEN a ELSE b

\* VoxCallController._db_to_percent (controller.py:121-124)
Web_db_to_percent(db) ==
    LET clipped == Max(DB_MIN, Min(DB_MAX, db))
        pct == RoundHalfEven((clipped - DB_MIN) * 100, DB_MAX - DB_MIN)
    IN  Max(0, Min(100, pct))

\* VoxCallGui._db_to_percent (app.py:652-655)
Gui_db_to_percent(db) ==
    LET clipped == Max(DB_MIN, Min(DB_MAX, db))
        pct == RoundHalfEven((clipped - DB_MIN) * 100, DB_MAX - DB_MIN)
    IN  Max(0, Min(100, pct))

\* a web layer that takes every non-negative value for a percentage
Web_normalize_level_NoFraction(l) ==
    IF l.kind = "text" THEN [raised |-> FALSE, pct |-> 0]
    ELSE IF l.kind = "nan" THEN [raised |-> TRUE, pct |-> 0]
    ELSE IF l.v < 0 THEN [raised |-> FALSE, pct |-> Web_db_to_percent(l.v)]
    ELSE [raised |-> FALSE, pct |-> Max(0, Min(100, RoundHalfEven(l.v, 1000)))]

\* VoxCallController._normalize_level (controller.py:126-140); int(round(nan))
\* raises
Web_normalize_level(l) ==
    IF l.kind = "text" THEN [raised |-> FALSE, pct |-> 0]
    ELSE IF l.kind = "nan" THEN [raised |-> TRUE, pct |-> 0]
    ELSE IF 0 <= l.v /\ l.v <= 1500
    THEN [raised |-> FALSE, pct |-> Max(0, Min(100, RoundHalfEven(l.v * 100, 1000)))]
    ELSE IF l.v < 0 THEN [raised |-> FALSE, pct |-> Web_db_to_percent(l.v)]
    ELSE [raised |-> FALSE, pct |-> Max(0, Min(100, RoundHalfEven(l.v, 1000)))]

\* VoxCallGui._normalize_level (app.py:657-671)
Gui_normalize_level(l) ==
    IF l.kind = "text" THEN [raised |-> FALSE, pct |-> 0]
    ELSE IF l.kind = "nan" THEN [raised |-> TRUE, pct |-> 0]
    ELSE IF 0 <= l.v /\ l.v <= 1500
    THEN [raised |-> FALSE, pct |-> Max(0, Min(100, RoundHalfEven(l.v * 100, 1000)))]
    ELSE IF l.v < 0 THEN [raised |-> FALSE, pct |-> Gui_db_to_percent(l.v)]
    ELSE [raised |-> FALSE, pct |-> Max(0, Min(100, RoundHalfEven(l.v, 1000)))]

\* the threshold both layers use: "max(0, min(100, int(... or 0)))"
\* (controller.py:169, app.py:697)
SquelchThreshold(t) == Max(0, Min(100, t))

\* a web squelch without hysteresis
Web_open_now_Plain(thr, open, pct) == thr = 0 \/ pct >= thr

\* VoxCallController._set_level: open_now (controller.py:171-177)
Web_open_now(thr, open, pct) ==
    IF thr = 0 THEN TRUE
    ELSE IF open THEN pct >= Max(0, thr - sql_hyst)
    ELSE pct >= Min(100, thr + sql_hyst)

\* VoxCallGui._set_level: open_now (app.py:699-705)
Gui_open_now(thr, open, pct) ==
    IF thr = 0 THEN TRUE
    ELSE IF open THEN pct >= Max(0, thr - sql_hyst)
    ELSE pct >= Min(100, thr + sql_hyst)

\* VoxCallController._set_level (controller.py:162-183): nothing is stored when
\* _normalize_level raises
Web_set_level(w, t, l) ==
    LET n == Web_normalize_level(l)
    IN  IF n.raised THEN w
        ELSE [pct |-> n.pct,
              open |-> Web_open_now(SquelchThreshold(t), w.open, n.pct)]

\* VoxCallGui._set_level (app.py:689-717)
Gui_set_level(g, t, l) ==
    LET n == Gui_normalize_level(l)
    IN  IF n.raised THEN g
        ELSE [pct |-> n.pct,
              open |-> Gui_open_now(SquelchThreshold(t), g.open, n.pct)]

\* a layer as constructed: level 0, squelch closed (controller.py:104-116,
\* app.py:69)
LayerInit == [pct |-> 0, open |-> FALSE]

\* both layers as constructed on threshold t
UiInit(t) == [thr |-> t, gui |-> LayerInit, web |-> LayerInit]

\* a value the engine gives hooks.set_bar, as _set_level receives it: a
\* number, here in thousandths
BarLevel(v) == [kind |-> "num", v |-> 1000 * v]

\* hooks.set_bar(v) where the hooks are the front ends' own: set_bar is
\* _set_level (controller.py:350-354, app.py:735); v = 0 stands for no call in
\* this tick
Heard(u, v) ==
    IF hooks = "ui" /\ v # 0
    THEN [u EXCEPT !.gui = Gui_set_level(@, u.thr, BarLevel(v)),
                   !.web = Web_set_level(@, u.thr, BarLevel(v))]
    ELSE u

\* the controller as constructed: no engine, no engine thread, not running
\* (controller.py:104, 114-115); workers are the engine threads start() has
\* created (where each stands, its engine's stop event, whether it has encoded
\* a recording), call is where the one caller of the controller stands, patch
\* the audio fields the last patch_config carried, patchedAt the recordings
\* already fanned out when a patch last changed a destination (-1: never)
\* WebEventBus.__init__ (controller.py:44-47): no loop, no queues. Clients are
\* numbered in the order add_client made their queues; queues is _queues, q
\* what each client's queue holds, pending the _fanout callbacks the loop has
\* not run yet, got what each client's generator has taken, emits the calls of
\* emit so far, removedAt the emits made when the client was removed (-1: not)
BusInit ==
    [loop |-> "none", queues |-> <<>>, q |-> <<>>, pending |-> <<>>, got |-> <<>>,
     emits |-> 0, removedAt |-> <<>>]

CtlInit ==
    [engine |-> 0, engine_thread |-> 0, running |-> FALSE, call |-> "none",
     workers |-> <<>>, patch |-> {}, patchedAt |-> -1, bus |-> BusInit]

\* no front end takes part: the layers and the controller stay as constructed
NoFrontEnd == ui = UiInit(0) /\ ctl = CtlInit

\* ------------------------------------------------------------- construction

\* VoxCallEngine.__init__
EngineInit ==
    /\ cfg \in AudioCfgs \cup {NameAudioCfg} \cup MeterAudioCfgs
    /\ pc = "init"
    /\ stop = FALSE
    /\ streamOpen = FALSE
    /\ pa = FALSE
    /\ ini = <<>>
    /\ reloaded = <<>>
    /\ rec_debounce_counter = 0
    /\ counter = 0
    /\ last_api_attempt = 0
    /\ now = StartTime
    /\ tenths = 0
    /\ status = ""
    /\ status_color = ""
    /\ surfaced = <<>>
    /\ bar = 0
    /\ quiet_chunks = 0
    /\ total_chunks = 0
    /\ chunks = <<>>
    /\ taken = <<>>
    /\ timed_out = FALSE
    /\ session = 0
    /\ recFrom = 0
    /\ start_time = 0
    /\ wavWritten = {}
    /\ duration = Seconds(0, 1)
    /\ names = {}
    /\ encoderCalled = {}
    /\ encoderFailed = {}
    /\ threads = <<>>
    /\ reads = 0
    /\ appended = 0
    /\ exitBy = "none"
    /\ idleRun = 0
    /\ readsAfterStop = 0
    /\ disk = {}
    /\ lastBeat = 0
    /\ lastEnd = 0
    /\ emitted = 0
    /\ idleTicks = 0
    /\ scaleTicks = <<>>
    /\ hookRaised = FALSE

\* config.py: RdioCfg, also the shape of the optional icad_dispatch section
RdioCfgs(S) == [api_url : S, api_key : S, system : S, talkgroup : S]

\* config.py:24-56  AppCfg() defaults; AppCfg declares no icad_dispatch section
DefaultAppCfg ==
    [bcfy |-> [api_key |-> Blank, system_id |-> Blank, slot_id |-> <<"1">>,
               freq_mhz |-> Blank],
     rdio |-> [api_url |-> Blank, api_key |-> Blank, system |-> Blank,
               talkgroup |-> Blank],
     has_icad_dispatch |-> FALSE,
     icad_dispatch |-> [api_url |-> Blank, api_key |-> Blank, system |-> Blank,
                        talkgroup |-> Blank],
     openmhz |-> [api_key |-> Blank, short_name |-> Blank, tgid |-> Blank],
     save_audio |-> FALSE,
     version |-> <<"v">>]

\* an AppCfg with every destination fully configured
ConfiguredAppCfg ==
    [bcfy |-> [api_key |-> <<"k">>, system_id |-> <<"1">>, slot_id |-> <<"1">>,
               freq_mhz |-> <<"1">>],
     rdio |-> [api_url |-> <<"k">>, api_key |-> <<"k">>, system |-> <<"1">>,
               talkgroup |-> <<"1">>],
     has_icad_dispatch |-> TRUE,
     icad_dispatch |-> [api_url |-> <<"k">>, api_key |-> <<"k">>,
                        system |-> <<"1">>, talkgroup |-> <<"1">>],
     openmhz |-> [api_key |-> <<"k">>, short_name |-> <<"k">>, tgid |-> <<"1">>],
     save_audio |-> TRUE,
     version |-> <<"v">>]

\* an AppCfg with every destination but Broadcastify configured
NoBcfyAppCfg == [ConfiguredAppCfg EXCEPT !.bcfy.api_key = Blank]

\* VoxCallEngine.__init__ (engine.py:57-82): the four clients
ClientsOf(a) ==
    [bcfy |-> [api_key |-> a.bcfy.api_key, system_id |-> a.bcfy.system_id,
               slot_id |-> a.bcfy.slot_id, freq_mhz |-> a.bcfy.freq_mhz,
               version |-> a.version],
     rdio |-> [api_url |-> a.rdio.api_url, api_key |-> a.rdio.api_key,
               system |-> a.rdio.system, talkgroup |-> a.rdio.talkgroup],
     icad |-> IF ~a.has_icad_dispatch
              THEN [api_url |-> Blank, api_key |-> Blank, system |-> Blank,
                    talkgroup |-> Blank]
              ELSE [api_url |-> a.icad_dispatch.api_url,
                    api_key |-> a.icad_dispatch.api_key,
                    system |-> a.icad_dispatch.system,
                    talkgroup |-> a.icad_dispatch.talkgroup],
     openmhz |-> [api_key |-> a.openmhz.api_key,
                  short_name |-> a.openmhz.short_name, tgid |-> a.openmhz.tgid,
                  freq_mhz |-> a.bcfy.freq_mhz]]

\* HTTP statuses and response bodies the network may answer with; a body is
\* UTF-8 text or bytes that do not decode
Statuses == {200, 204, 500}
MaxBodyLen == 3
BodyChars == {"0", "1", " ", "u"}
Bodies ==
    {[utf8 |-> TRUE, text |-> t] : t \in StringsUpTo(BodyChars, MaxBodyLen)}
        \cup {[utf8 |-> FALSE, text |-> Blank]}

\* a network that answers 200 or 500, with "0 u", "1" or "0"
PlainStatuses == {200, 500}
PlainBodies ==
    {[utf8 |-> TRUE, text |-> t] : t \in {<<"0", " ", "u">>, <<"1">>, <<"0">>}}

\* the engine alone: a default configuration, whose uploads are all skipped
Init ==
    /\ EngineInit
    /\ cfg \in AudioCfgs
    /\ appcfg = DefaultAppCfg
    /\ clients = ClientsOf(appcfg)
    /\ net = "any"
    /\ deliverable = MaxReads
    /\ delays = {0}
    /\ hooks \in {"none", "faulty"}
    /\ fs = "sound"
    /\ capture = DefaultCapture
    /\ NoFrontEnd

\* ------------------------------------------------------------------ engine

\* a _safe_call without its try/except
safe_call_Unguarded(raised) == raised

\* _safe_call (engine.py:39-44): whether the exception a hook raised leaves
\* the call; "except Exception: pass" swallows it
safe_call(raised) == FALSE

\* a step that calls hooks (calls) may find one of them raising; a step that
\* calls none, or an engine without hooks, finds none
HookCall(calls) ==
    hookRaised' \in (IF calls /\ hooks = "faulty" THEN BOOLEAN ELSE {FALSE})

\* where the engine stands after its hook calls: at next, unless an exception
\* left _safe_call
After(next) == IF safe_call(hookRaised') /\ hookRaised' THEN "raised" ELSE next

\* tenths of a second a chunk takes to be read: cfg.audio.rectime (stream.py:132-135)
ReadTenths(c) == OrDefault(c.rectime, 1)

\* stream.py:97-98  chunk_frames = max(64, int(round(rate * rectime_s)))
chunk_frames(rate, c) == Max(64, RoundHalfEven(rate * ReadTenths(c), 10))

\* engine.py:198-207: the samples of the kept chunks, each read_chunk() being
\* chunk_frames frames of stream.channels samples (stream.py:132-135), picked
\* by cfg.audio.in_channel and divided by stream.rate
DurationOf(kept, c, cap) ==
    Seconds(pick_channel(kept * chunk_frames(cap.rate, c) * cap.channels, cap.in_channel),
            cap.rate)

\* d tenths of a second go by
Elapses(d) ==
    LET t == 10 * now + tenths + d
    IN  now' = t \div 10 /\ tenths' = t % 10

\* _handle_recording: the time in wav_name, "round(time.time())" (engine.py:212)
wav_name(secs, frac) == RoundHalfEven(10 * secs + frac, 10)

\* VoxCallEngine.stop(), called from another thread
Stop ==
    /\ ~stop
    /\ stop' = TRUE
    /\ UNCHANGED <<cfg, pc, streamOpen, pa, rec_debounce_counter, counter,
                   last_api_attempt, now, tenths, status, status_color, surfaced, bar, quiet_chunks,
                   total_chunks, chunks, taken, timed_out, session, recFrom, start_time, wavWritten, duration, names,
                   encoderCalled, encoderFailed, threads, reads, appended, exitBy,
                   idleRun, readsAfterStop, disk, lastBeat, lastEnd, emitted,
                   idleTicks, scaleTicks, hookRaised,
                   appcfg, clients, net, deliverable, delays, hooks, fs, capture, ini, reloaded,
                   frontVars>>

\* run_forever: stream.open(), then the head of _loop (engine.py:107-111);
\* a failing open propagates: from pyaudio.PyAudio() with no backend instance
\* made, from the rate probe or from the backend's open with the instance
\* kept in _pa (stream.py:81-122); the open is not inside run_forever's try
RunForever ==
    /\ pc = "init"
    /\ \E opened \in BOOLEAN :
        IF opened
        THEN /\ HookCall(TRUE)
             /\ streamOpen' = TRUE
             /\ pa' = TRUE
             /\ last_api_attempt' = 0
             /\ counter' = 0
             /\ status' = "Waiting For Audio"
             /\ status_color' = "blue"
             /\ surfaced' = <<>>
             /\ pc' = After("idle_check")
        ELSE /\ HookCall(FALSE)
             /\ pc' = "raised"
             /\ \E backend \in BOOLEAN : pa' = backend
             /\ UNCHANGED <<streamOpen, last_api_attempt, counter, status,
                            status_color, surfaced>>
    /\ UNCHANGED <<cfg, stop, rec_debounce_counter, now, tenths, bar, quiet_chunks,
                   total_chunks, chunks, taken, timed_out, session, recFrom, start_time, wavWritten, duration, names,
                   encoderCalled, encoderFailed, threads, reads, appended, exitBy,
                   idleRun, readsAfterStop, disk, lastBeat, lastEnd, emitted,
                   idleTicks, scaleTicks,
                   appcfg, clients, net, deliverable, delays, hooks, fs, capture, ini, reloaded,
                   frontVars>>

\* a heartbeat test that fires at the period itself
HeartbeatDue_AtPeriod(t, last) == t - last >= HeartbeatPeriod

\* engine.py:114  time.time() - last_api_attempt > 10 * 60
HeartbeatDue(t, last) == t - last > HeartbeatPeriod

\* _loop: "while not self._stop.is_set()" and the heartbeat (engine.py:113-116);
\* leaving the loop runs run_forever's finally (stream.close())
IdleCheck ==
    /\ pc = "idle_check"
    /\ HookCall(FALSE)
    /\ IF stop
       THEN /\ pc' = "returned"
            /\ streamOpen' = FALSE
            /\ pa' = FALSE
            /\ UNCHANGED <<threads, last_api_attempt, lastBeat>>
       ELSE /\ pc' = "idle_read"
            /\ IF HeartbeatDue(now, last_api_attempt)
               THEN /\ threads' = StartThread(threads, 0, "heartbeat")
                    /\ last_api_attempt' = now
                    /\ lastBeat' = now
               ELSE UNCHANGED <<threads, last_api_attempt, lastBeat>>
            /\ UNCHANGED <<streamOpen, pa>>
    /\ UNCHANGED <<cfg, stop, rec_debounce_counter, counter, now, tenths, status,
                   status_color, surfaced, bar, quiet_chunks, total_chunks, chunks, taken, timed_out,
                   session, recFrom, start_time, wavWritten, duration, names, encoderCalled, encoderFailed, reads,
                   appended, exitBy, idleRun, readsAfterStop, disk, lastEnd,
                   emitted, idleTicks, scaleTicks,
                   appcfg, clients, net, deliverable, delays, hooks, fs, capture, ini, reloaded,
                   frontVars>>

\* the debounce counter after a chunk (engine.py:130-134)
Debounce(n, c, thr) == IF AboveThreshold(c, thr) THEN n + 1 ELSE 0

\* the debounce counter kept when a recording is triggered
DebounceAfterTrigger_Kept(n) == n

\* the debounce counter once a recording is triggered (engine.py:137)
DebounceAfterTrigger(n) == 0

\* the idle level is refreshed one tick early
BarDue_OneEarly(n) == n >= BarEvery - 1

\* _loop: "elif counter >= 6" (engine.py:123)
BarDue(n) == n >= BarEvery

\* _loop: one idle tick (engine.py:118-139), up to and including the head of
\* _handle_recording (engine.py:142-163) when the debounce is satisfied
IdleTick(c) ==
    /\ pc = "idle_read"
    /\ reads < deliverable
    /\ reads' = reads + 1
    /\ readsAfterStop' = IF stop THEN readsAfterStop + 1 ELSE readsAfterStop
    /\ idleRun' = IF AboveThreshold(c, cfg.record_threshold) THEN idleRun + 1 ELSE 0
    /\ idleTicks' = idleTicks + 1
    /\ \E late \in delays : Elapses(ReadTenths(cfg) + 10 * late)
    /\ LET bump == ~(peak(c) = 0) /\ BarDue(counter)
           d == Debounce(rec_debounce_counter, c, cfg.record_threshold)
       IN  /\ HookCall(peak(c) = 0 \/ bump \/ d >= DebounceNeeded)
           /\ bar' = IF peak(c) = 0 THEN 1
                     ELSE IF bump THEN level_ui_scale(c) ELSE bar
           /\ emitted' = IF peak(c) = 0 THEN 1
                         ELSE IF bump THEN level_ui_scale(c) ELSE 0
           /\ counter' = (IF bump THEN 0 ELSE counter) + 1
           /\ scaleTicks' = IF bump THEN Append(scaleTicks, idleTicks + 1) ELSE scaleTicks
           /\ IF d >= DebounceNeeded
              THEN /\ rec_debounce_counter' = DebounceAfterTrigger(d)
                   /\ session' = session + 1
                   /\ recFrom' = reads + 1
                   /\ start_time' = 10 * now' + tenths'
                   /\ quiet_chunks' = 0
                   /\ total_chunks' = 0
                   /\ chunks' = <<>>
                   /\ taken' = <<>>
                   /\ timed_out' = FALSE
                   /\ appended' = 0
                   /\ exitBy' = "none"
                   /\ status' = "Recording"
                   /\ status_color' = "green"
                   /\ surfaced' = <<Shown(status', status_color')>>
                   /\ pc' = After("rec_check")
              ELSE /\ rec_debounce_counter' = d
                   /\ pc' = After("idle_check")
                   /\ UNCHANGED <<session, recFrom, start_time, quiet_chunks, total_chunks, chunks, taken,
                                  timed_out, appended, exitBy, status, status_color, surfaced>>
    /\ ui' = Heard(ui, emitted')
    /\ UNCHANGED <<cfg, stop, streamOpen, pa, last_api_attempt, wavWritten, duration, names,
                   encoderCalled, encoderFailed, threads, disk, lastBeat, lastEnd,
                   appcfg, clients, net, deliverable, delays, hooks, fs, capture, ini, reloaded,
                   ctl>>

\* a failing read that leaves run_forever without closing the stream
ReadFault_StreamLeftOpen ==
    /\ pc \in {"idle_read", "rec_read"}
    /\ pc' = "raised"
    /\ UNCHANGED <<streamOpen, pa>>
    /\ HookCall(FALSE)
    /\ UNCHANGED <<cfg, stop, rec_debounce_counter, counter, last_api_attempt, now, tenths,
                   status, status_color, surfaced, bar, quiet_chunks, total_chunks, chunks, taken,
                   timed_out, session, recFrom, start_time, wavWritten, duration, names, encoderCalled, encoderFailed,
                   threads, reads, appended, exitBy, idleRun, readsAfterStop,
                   disk, lastBeat, lastEnd, emitted, idleTicks, scaleTicks,
                   appcfg, clients, net, deliverable, delays, hooks, fs, capture, ini, reloaded,
                   frontVars>>

\* stream.read_chunk() raises, in Idle or in Recording: the exception leaves
\* _loop and run_forever's finally closes the stream
ReadFault ==
    /\ pc \in {"idle_read", "rec_read"}
    /\ pc' = "raised"
    /\ streamOpen' = FALSE
    /\ pa' = FALSE
    /\ HookCall(FALSE)
    /\ UNCHANGED <<cfg, stop, rec_debounce_counter, counter, last_api_attempt, now, tenths,
                   status, status_color, surfaced, bar, quiet_chunks, total_chunks, chunks, taken,
                   timed_out, session, recFrom, start_time, wavWritten, duration, names, encoderCalled, encoderFailed,
                   threads, reads, appended, exitBy, idleRun, readsAfterStop,
                   disk, lastBeat, lastEnd, emitted, idleTicks, scaleTicks,
                   appcfg, clients, net, deliverable, delays, hooks, fs, capture, ini, reloaded,
                   frontVars>>

\* _handle_recording returns into _loop (engine.py:139); its locals are dead
ReturnToLoop ==
    /\ pc' = After("idle_check")
    /\ last_api_attempt' = now
    /\ lastEnd' = now
    /\ quiet_chunks' = 0
    /\ total_chunks' = 0
    /\ chunks' = <<>>
    /\ taken' = <<>>
    /\ timed_out' = FALSE
    /\ idleRun' = 0

\* the recording loop goes on without a stop request (engine.py:164)
RecordingContinues_IgnoringStop(quiet, sn, stopped) == quiet < sn

\* a recording loop that the timeout ends
RecordingContinues_UntilTimeout(quiet, sn, stopped) ==
    quiet < sn /\ ~stopped /\ total_chunks <= timeout_needed(cfg)

\* the recording loop goes on (engine.py:164)
RecordingContinues(quiet, sn, stopped) == quiet < sn /\ ~stopped

\* _handle_recording: the loop test and the timeout test (engine.py:164-169)
RecCheck ==
    /\ pc = "rec_check"
    /\ IF RecordingContinues(quiet_chunks, silence_needed(cfg), stop)
       THEN /\ HookCall(total_chunks > timeout_needed(cfg))
            /\ pc' = After("rec_read")
            /\ IF total_chunks > timeout_needed(cfg)
               THEN /\ timed_out' = TRUE
                    /\ status' = "RECORDING TIMED OUT"
                    /\ status_color' = "red"
                    /\ surfaced' = Append(surfaced, Shown(status', status_color'))
               ELSE UNCHANGED <<timed_out, status, status_color, surfaced>>
            /\ UNCHANGED exitBy
       ELSE /\ HookCall(FALSE)
            /\ pc' = "finalize"
            /\ exitBy' = IF quiet_chunks < silence_needed(cfg) THEN "stop" ELSE "silence"
            /\ UNCHANGED <<timed_out, status, status_color, surfaced>>
    /\ UNCHANGED <<cfg, stop, streamOpen, pa, rec_debounce_counter, counter,
                   last_api_attempt, now, tenths, bar, quiet_chunks, total_chunks, chunks, taken,
                   session, recFrom, start_time, wavWritten, duration, names, encoderCalled, encoderFailed, threads, reads,
                   appended, idleRun, readsAfterStop, disk, lastBeat, lastEnd,
                   emitted, idleTicks, scaleTicks,
                   appcfg, clients, net, deliverable, delays, hooks, fs, capture, ini, reloaded,
                   frontVars>>

\* the buffer after a chunk was read, the timeout forgotten
KeepChunk_Always(buf, c, timedOut) == Append(buf, c)

\* the buffer after a chunk was read (engine.py:174-175)
KeepChunk(buf, c, timedOut) == IF ~timedOut THEN Append(buf, c) ELSE buf

\* _handle_recording: one recording tick (engine.py:171-185)
RecTick(c) ==
    /\ pc = "rec_read"
    /\ reads < deliverable
    /\ reads' = reads + 1
    /\ readsAfterStop' = IF stop THEN readsAfterStop + 1 ELSE readsAfterStop
    /\ chunks' = KeepChunk(chunks, c, timed_out)
    /\ taken' = KeepChunk(taken, reads + 1, timed_out)
    /\ appended' = IF Len(chunks') > Len(chunks) THEN appended + 1 ELSE appended
    /\ \E late \in delays : Elapses(ReadTenths(cfg) + 10 * late)
    /\ HookCall(TRUE)
    /\ bar' = IF peak(c) = 0 THEN 1 ELSE level_ui_scale(c)
    /\ emitted' = bar'
    /\ quiet_chunks' = IF BelowThreshold(c, cfg.record_threshold)
                       THEN quiet_chunks + 1 ELSE 0
    /\ total_chunks' = total_chunks + 1
    /\ idleRun' = 0
    /\ pc' = After("rec_check")
    /\ ui' = Heard(ui, emitted')
    /\ UNCHANGED <<cfg, stop, streamOpen, pa, rec_debounce_counter, counter,
                   last_api_attempt, status, status_color, surfaced, timed_out, session, recFrom, start_time,
                   wavWritten, duration, names, encoderCalled, encoderFailed, threads, exitBy,
                   disk, lastBeat, lastEnd, idleTicks, scaleTicks,
                   appcfg, clients, net, deliverable, delays, hooks, fs, capture, ini, reloaded,
                   ctl>>

\* the session is dropped when a stop request ended it
NothingCaptured_OrStopped == chunks = <<>> \/ stop

\* no session is ever dropped
NothingCaptured_Never == FALSE

\* the session is dropped: nothing was buffered (engine.py:189)
NothingCaptured == chunks = <<>>

\* _handle_recording after the loop (engine.py:187-223): nothing buffered, or
\* trim, concatenate and write the WAV; a failing write propagates
Finalize ==
    /\ pc = "finalize"
    /\ IF NothingCaptured
       THEN /\ HookCall(TRUE)
            /\ status' = "No audio captured"
            /\ status_color' = "red"
            /\ surfaced' = Append(surfaced, Shown(status', status_color'))
            /\ ReturnToLoop
            /\ UNCHANGED <<wavWritten, duration, names, streamOpen, pa, disk>>
       ELSE \E written \in BOOLEAN :
            IF written
            THEN /\ HookCall(FALSE)
                 /\ chunks' = TrimTrailingSilence(chunks, silence_needed(cfg))
                 /\ taken' = TrimTrailingSilence(taken, silence_needed(cfg))
                 /\ wavWritten' = wavWritten \cup {session}
                 /\ duration' = DurationOf(Len(chunks'), cfg, capture)
                 /\ names' = names \cup {<<session, wav_name(now, tenths)>>}
                 /\ disk' = disk \cup {<<wav_name(now, tenths), "wav">>}
                 /\ pc' = "encode"
                 /\ UNCHANGED <<status, status_color, surfaced, last_api_attempt, quiet_chunks,
                                total_chunks, timed_out, idleRun, streamOpen, pa,
                                lastEnd>>
            ELSE /\ HookCall(FALSE)
                 /\ pc' = "raised"
                 /\ streamOpen' = FALSE
                 /\ pa' = FALSE
                 /\ UNCHANGED <<chunks, taken, wavWritten, duration, names, status, status_color, surfaced,
                                last_api_attempt, quiet_chunks, total_chunks,
                                timed_out, idleRun, lastEnd, disk>>
    /\ UNCHANGED <<cfg, stop, rec_debounce_counter, counter, now, tenths, bar, session, recFrom, start_time,
                   encoderCalled, encoderFailed, threads, reads, appended, exitBy,
                   readsAfterStop, lastBeat, emitted, idleTicks, scaleTicks,
                   appcfg, clients, net, deliverable, delays, hooks, fs, capture, ini, reloaded,
                   frontVars>>

\* how the encode step may end: both passes and the unlink succeed, the MP3
\* pass fails, the M4A pass fails, or, on a failing file system, the unlink of
\* the WAV raises another error than FileNotFoundError
EncodeOutcomes ==
    {"ok", "mp3_failed", "m4a_failed"}
    \cup (IF fs = "faulty" THEN {"unlink_failed"} ELSE {})

\* an encode step that never unlinks the WAV
EncodeLeaves_KeepsWav(d, name, outcome) ==
    CASE outcome = "mp3_failed" -> d
      [] outcome = "m4a_failed" -> d \cup {<<name, "mp3">>}
      [] OTHER -> d \cup {<<name, "mp3">>, <<name, "m4a">>}

\* the files after wav_to_mp3_m4a (ffmpeg.py:16-23) and wav_path.unlink()
\* (engine.py:232-235): a pass that fails leaves what came before it
EncodeLeaves(d, name, outcome) ==
    CASE outcome = "ok" -> (d \cup {<<name, "mp3">>, <<name, "m4a">>}) \ {<<name, "wav">>}
      [] outcome = "mp3_failed" -> d
      [] outcome = "m4a_failed" -> d \cup {<<name, "mp3">>}
      [] outcome = "unlink_failed" -> d \cup {<<name, "mp3">>, <<name, "m4a">>}

\* an encode whose exception handler does not return
Encode_FallsThrough ==
    /\ pc = "encode"
    /\ encoderCalled' = encoderCalled \cup {session}
    /\ \E outcome \in EncodeOutcomes :
        /\ pc' = "fanout"
        /\ disk' = EncodeLeaves(disk, NameOf(session), outcome)
        /\ IF outcome = "ok"
           THEN /\ HookCall(FALSE)
                /\ UNCHANGED <<encoderFailed, status, status_color, surfaced>>
           ELSE /\ HookCall(TRUE)
                /\ encoderFailed' = encoderFailed \cup {session}
                /\ status' = "Encode failed"
                /\ status_color' = "red"
                /\ surfaced' = Append(surfaced, Shown(status', status_color'))
        /\ UNCHANGED <<last_api_attempt, quiet_chunks, total_chunks, chunks, taken,
                       timed_out, idleRun, lastEnd>>
    /\ UNCHANGED <<cfg, stop, streamOpen, pa, rec_debounce_counter, counter, now, tenths, bar,
                   session, recFrom, start_time, wavWritten, duration, names, threads, reads, appended, exitBy,
                   lastBeat, emitted, idleTicks, scaleTicks,
                   readsAfterStop, appcfg, clients, net, deliverable, delays, hooks, fs, capture, ini, reloaded,
                   frontVars>>

\* _handle_recording: wav_to_mp3_m4a and the unlink of the WAV (engine.py:225-242)
Encode ==
    /\ pc = "encode"
    /\ encoderCalled' = encoderCalled \cup {session}
    /\ \E outcome \in EncodeOutcomes :
        /\ disk' = EncodeLeaves(disk, NameOf(session), outcome)
        /\ IF outcome = "ok"
           THEN /\ HookCall(FALSE)
                /\ pc' = "fanout"
                /\ UNCHANGED <<encoderFailed, status, status_color, surfaced,
                               last_api_attempt, quiet_chunks, total_chunks,
                               chunks, taken, timed_out, idleRun, lastEnd>>
           ELSE /\ HookCall(TRUE)
                /\ encoderFailed' = encoderFailed \cup {session}
                /\ status' = "Encode failed"
                /\ status_color' = "red"
                /\ surfaced' = Append(surfaced, Shown(status', status_color'))
                /\ ReturnToLoop
    /\ UNCHANGED <<cfg, stop, streamOpen, pa, rec_debounce_counter, counter, now, tenths, bar,
                   session, recFrom, start_time, wavWritten, duration, names, threads, reads, appended, exitBy,
                   readsAfterStop, lastBeat, emitted, idleTicks, scaleTicks,
                   appcfg, clients, net, deliverable, delays, hooks, fs, capture, ini, reloaded,
                   frontVars>>

\* a fan-out that forgets the second Rdio sink
FanOutThreads_NoIcad(ths, sid) ==
    StartThread(StartThread(StartThread(StartThread(ths,
        sid, "bcfy"), sid, "rdio"), sid, "openmhz"), sid, "cleanup")

\* the threads started for a finalized recording (engine.py:245-259)
FanOutThreads(ths, sid) ==
    StartThread(StartThread(StartThread(StartThread(StartThread(ths,
        sid, "bcfy"), sid, "rdio"), sid, "icad"), sid, "openmhz"), sid, "cleanup")

\* a fan-out that joins the threads it started before it returns
FanOut_Joining ==
    /\ pc = "fanout"
    /\ threads' = FanOutThreads(threads, session)
    /\ pc' = "join"
    /\ UNCHANGED <<cfg, stop, streamOpen, pa, rec_debounce_counter, counter,
                   last_api_attempt, now, tenths, status, status_color, surfaced, bar, quiet_chunks,
                   total_chunks, chunks, taken, timed_out, session, recFrom, start_time, wavWritten, duration, names,
                   encoderCalled, encoderFailed, reads, appended, exitBy, idleRun,
                   readsAfterStop, disk, lastBeat, lastEnd, emitted, idleTicks, scaleTicks,
                   hookRaised, appcfg, clients, net, deliverable, delays, hooks, fs, capture, ini, reloaded,
                   frontVars>>

\* _handle_recording: fan-out, cleanup and the idle status (engine.py:244-264)
FanOut ==
    /\ pc = "fanout"
    /\ HookCall(TRUE)
    /\ threads' = FanOutThreads(threads, session)
    /\ status' = "Waiting For Audio"
    /\ status_color' = "blue"
    /\ surfaced' = Append(surfaced, Shown(status', status_color'))
    /\ ReturnToLoop
    /\ UNCHANGED <<cfg, stop, streamOpen, pa, rec_debounce_counter, counter, now, tenths, bar,
                   session, recFrom, start_time, wavWritten, duration, names, encoderCalled, encoderFailed, reads,
                   appended, exitBy, readsAfterStop, disk, lastBeat, emitted,
                   idleTicks, scaleTicks,
                   appcfg, clients, net, deliverable, delays, hooks, fs, capture, ini, reloaded,
                   frontVars>>

\* ----------------------------------------------------------------- uploads

NetStatuses == IF net = "any" THEN Statuses ELSE PlainStatuses
NetBodies == IF net = "any" THEN Bodies ELSE PlainBodies

\* thread i runs target and stands at st
ThreadAt(i, target, st) ==
    /\ i \in 1..Len(threads)
    /\ threads[i].target = target
    /\ threads[i].st = st

\* thread i moves to st
Goes(i, st) == threads' = [threads EXCEPT ![i].st = st]

\* thread i calls http.request(method, url, ...) and waits for the answer
Sends(i, method, url, st) ==
    threads' = [threads EXCEPT ![i].st = st,
                               ![i].sent = Append(@, [method |-> method, url |-> url])]

\* thread i calls http.request(method, url, fields=...) with the fields that
\* carry a time, and waits for the answer
SendsFields(i, method, url, fields, st) ==
    threads' = [threads EXCEPT ![i].st = st,
                               ![i].sent = Append(@, [method |-> method, url |-> url,
                                                      fields |-> fields])]

\* fields of the metadata POST (broadcastify.py:41-52)
BcfyFields(a) == [callDuration |-> a[1]]

\* fields of the upload POST (openmhz.py:29-46): start_time, start_time +
\* duration and duration
OpenMHzFields(a) ==
    [start_time |-> a[1], stop_time |-> PlusSeconds(Seconds(a[1], 10), a[2]),
     call_length |-> a[2]]

\* the file a thread is given: the M4A for OpenMHz, the MP3 for the others
\* (engine.py:245-248)
Artifact(target) == IF target = "openmhz" THEN "m4a" ELSE "mp3"

\* whether the encoded file of thread i's session can be opened: never once it
\* is gone (cleanup.py:38-46), and not always while it is there
FileStates(i) ==
    IF <<NameOf(threads[i].sid), Artifact(threads[i].target)>> \notin disk
    THEN {FALSE}
    ELSE BOOLEAN

\* BcfyClient.base_url (broadcastify.py:17-20)
base_url(version) ==
    IF EndsWithDEV(version) THEN <<"call-upload-dev">> ELSE <<"call-upload">>

\* BcfyClient: "if not self.api_key" (broadcastify.py:23, 34)
BcfyConfigured(c) == Truthy(c.api_key)

\* BcfyClient.heartbeat up to its request (broadcastify.py:22-26)
HeartbeatStart(i) ==
    /\ ThreadAt(i, "heartbeat", "pending")
    /\ IF ~BcfyConfigured(clients.bcfy)
       THEN Goes(i, "skipped")
       ELSE Sends(i, "POST", base_url(clients.bcfy.version), "posted")
    /\ UNCHANGED <<engineVars, frontVars, clients, net, deliverable, disk>>

\* BcfyClient.heartbeat after its request (broadcastify.py:26-31)
HeartbeatAnswer(i) ==
    /\ ThreadAt(i, "heartbeat", "posted")
    /\ \/ Goes(i, "raised")
       \/ \E code \in NetStatuses :
            Goes(i, IF code # 200 THEN "failed" ELSE "ok")
    /\ UNCHANGED <<engineVars, frontVars, clients, net, deliverable, disk>>

\* BcfyClient.upload_mp3 up to the metadata POST (broadcastify.py:33-52)
BcfyStart(i) ==
    /\ ThreadAt(i, "bcfy", "pending")
    /\ IF ~BcfyConfigured(clients.bcfy)
       THEN Goes(i, "skipped")
       ELSE SendsFields(i, "POST", base_url(clients.bcfy.version),
                        BcfyFields(threads[i].args), "posted")
    /\ UNCHANGED <<engineVars, frontVars, clients, net, deliverable, disk>>

\* a reading of the POST answer that takes any code for a success
BcfyAfterPost_AnyStatus(code, body, present) ==
    LET resp == SplitSpace(body.text)
    IN  IF ~body.utf8 THEN [st |-> "raised", put |-> FALSE, url |-> Blank]
        ELSE IF resp[1] # <<"0">> THEN [st |-> "failed", put |-> FALSE, url |-> Blank]
        ELSE IF Len(resp) < 2 THEN [st |-> "raised", put |-> FALSE, url |-> Blank]
        ELSE IF ~present THEN [st |-> "raised", put |-> FALSE, url |-> Blank]
        ELSE [st |-> "put", put |-> TRUE, url |-> resp[2]]

\* BcfyClient.upload_mp3 from the POST answer to the PUT (broadcastify.py:54-70):
\* what the thread does with code and body, the file being present or not
BcfyAfterPost(code, body, present) ==
    LET resp == SplitSpace(body.text)
    IN  IF code # 200 THEN [st |-> "failed", put |-> FALSE, url |-> Blank]
        ELSE IF ~body.utf8 THEN [st |-> "raised", put |-> FALSE, url |-> Blank]
        ELSE IF resp[1] # <<"0">> THEN [st |-> "failed", put |-> FALSE, url |-> Blank]
        ELSE IF Len(resp) < 2 THEN [st |-> "raised", put |-> FALSE, url |-> Blank]
        ELSE IF ~present THEN [st |-> "raised", put |-> FALSE, url |-> Blank]
        ELSE [st |-> "put", put |-> TRUE, url |-> resp[2]]

\* BcfyClient.upload_mp3: the POST returns or raises (broadcastify.py:39-70)
BcfyPostAnswer(i) ==
    /\ ThreadAt(i, "bcfy", "posted")
    /\ \/ Goes(i, "raised")
       \/ \E code \in NetStatuses, body \in NetBodies, present \in FileStates(i) :
            LET r == BcfyAfterPost(code, body, present)
                answer == [status |-> code, body |-> body]
                put == [method |-> "PUT", url |-> r.url]
            IN  threads' = [threads EXCEPT
                    ![i].st = r.st,
                    ![i].got = Append(@, answer),
                    ![i].sent = IF r.put THEN Append(@, put) ELSE @]
    /\ UNCHANGED <<engineVars, frontVars, clients, net, deliverable, disk>>

\* BcfyClient.upload_mp3: the PUT returns or raises (broadcastify.py:66-75)
BcfyPutAnswer(i) ==
    /\ ThreadAt(i, "bcfy", "put")
    /\ \/ Goes(i, "raised")
       \/ \E code \in NetStatuses :
            Goes(i, IF code = 200 THEN "ok" ELSE "failed")
    /\ UNCHANGED <<engineVars, frontVars, clients, net, deliverable, disk>>

\* RdioClient.upload: the required fields, stripped (rdio.py:20-25)
RdioRequired(c) ==
    [api_url |-> Strip(c.api_url), api_key |-> Strip(c.api_key),
     system |-> Strip(c.system), talkgroup |-> Strip(c.talkgroup)]

\* RdioClient.upload: the missing fields (rdio.py:26)
RdioMissing(c) ==
    {k \in {"api_url", "api_key", "system", "talkgroup"} : ~Truthy(RdioRequired(c)[k])}

\* RdioClient.upload up to its POST (rdio.py:18-66), for either sink
RdioStart(i) ==
    /\ \E d \in {"rdio", "icad"} :
        /\ ThreadAt(i, d, "pending")
        /\ IF RdioMissing(clients[d]) # {}
           THEN /\ Goes(i, "skipped")
                /\ UNCHANGED clients
           ELSE /\ clients' = [clients EXCEPT ![d] = RdioRequired(@)]
                /\ \E present \in FileStates(i) :
                    IF present
                    THEN Sends(i, "POST", Strip(clients[d].api_url), "posted")
                    ELSE Goes(i, "failed")
    /\ UNCHANGED <<engineVars, frontVars, net, deliverable, disk>>

\* RdioClient.upload after its POST (rdio.py:67-88)
RdioAnswer(i) ==
    /\ \E d \in {"rdio", "icad"} : ThreadAt(i, d, "posted")
    /\ \/ Goes(i, "failed")
       \/ \E code \in NetStatuses :
            Goes(i, IF 200 <= code /\ code < 300 THEN "ok" ELSE "failed")
    /\ UNCHANGED <<engineVars, frontVars, clients, net, deliverable, disk>>

\* OpenMHzClient.upload: the configuration test (openmhz.py:18)
OpenMHzConfigured(c) ==
    Truthy(c.api_key) /\ Truthy(c.short_name) /\ Truthy(c.tgid) /\ Truthy(c.freq_mhz)

\* OpenMHzClient.upload up to its POST (openmhz.py:17-46)
OpenMHzStart(i) ==
    /\ ThreadAt(i, "openmhz", "pending")
    /\ IF ~OpenMHzConfigured(clients.openmhz)
       THEN Goes(i, "skipped")
       ELSE IF ~IsFloat(clients.openmhz.freq_mhz)
       THEN Goes(i, "raised")
       ELSE \E present \in FileStates(i) :
            IF present
            THEN SendsFields(i, "POST", <<"api.openmhz.com">> \o clients.openmhz.short_name,
                             OpenMHzFields(threads[i].args), "posted")
            ELSE Goes(i, "raised")
    /\ UNCHANGED <<engineVars, frontVars, clients, net, deliverable, disk>>

\* OpenMHzClient.upload after its POST (openmhz.py:29-54)
OpenMHzAnswer(i) ==
    /\ ThreadAt(i, "openmhz", "posted")
    /\ \/ Goes(i, "raised")
       \/ \E code \in NetStatuses :
            Goes(i, IF code # 200 THEN "failed" ELSE "ok")
    /\ UNCHANGED <<engineVars, frontVars, clients, net, deliverable, disk>>

\* copyfile succeeds, unless the file system fails (cleanup.py:30-33)
CopyOutcomes == IF fs = "faulty" THEN BOOLEAN ELSE {TRUE}

\* cleanup_audio_files up to its sleep (cleanup.py:11-37); a directory that
\* cannot be created raises
CleanupStart(i) ==
    /\ ThreadAt(i, "cleanup", "pending")
    /\ IF appcfg.save_audio
       THEN \E made \in BOOLEAN :
            IF ~made
            THEN Goes(i, "raised") /\ UNCHANGED disk
            ELSE /\ Goes(i, "sleeping")
                 /\ IF <<NameOf(threads[i].sid), "mp3">> \in disk
                    THEN \E copied \in CopyOutcomes :
                            disk' = IF copied
                                    THEN disk \cup {<<NameOf(threads[i].sid), "archive">>}
                                    ELSE disk
                    ELSE UNCHANGED disk
       ELSE Goes(i, "sleeping") /\ UNCHANGED disk
    /\ UNCHANGED <<engineVars, frontVars, clients, net, deliverable>>

\* the files os.remove may leave behind: none, unless the file system fails
\* with another error than FileNotFoundError (cleanup.py:45-46)
RemoveLeaves(name) ==
    IF fs = "faulty"
    THEN SUBSET ({<<name, "mp3">>, <<name, "m4a">>} \cap disk)
    ELSE {{}}

\* cleanup_audio_files after its sleep (cleanup.py:38-46)
CleanupFinish(i) ==
    /\ ThreadAt(i, "cleanup", "sleeping")
    /\ Goes(i, "done")
    /\ \E left \in RemoveLeaves(NameOf(threads[i].sid)) :
        disk' = (disk \ {<<NameOf(threads[i].sid), "mp3">>, <<NameOf(threads[i].sid), "m4a">>})
                    \cup left
    /\ UNCHANGED <<engineVars, frontVars, clients, net, deliverable>>

\* something outside the program removes an encoded file
FileLost ==
    /\ \E f \in disk :
        /\ f[2] \in {"mp3", "m4a"}
        /\ disk' = disk \ {f}
    /\ UNCHANGED <<engineVars, frontVars, threads, clients, net, deliverable>>

Heartbeats ==
    \/ \E i \in 1..Len(threads) : HeartbeatStart(i)
    \/ \E i \in 1..Len(threads) : HeartbeatAnswer(i)

Uploads ==
    \/ \E i \in 1..Len(threads) : BcfyStart(i)
    \/ \E i \in 1..Len(threads) : BcfyPostAnswer(i)
    \/ \E i \in 1..Len(threads) : BcfyPutAnswer(i)
    \/ \E i \in 1..Len(threads) : RdioStart(i)
    \/ \E i \in 1..Len(threads) : RdioAnswer(i)
    \/ \E i \in 1..Len(threads) : OpenMHzStart(i)
    \/ \E i \in 1..Len(threads) : OpenMHzAnswer(i)

Cleanups ==
    \/ \E i \in 1..Len(threads) : CleanupStart(i)
    \/ \E i \in 1..Len(threads) : CleanupFinish(i)

Engine ==
    \/ RunForever
    \/ IdleCheck
    \/ \E c \in Peaks : IdleTick(c)
    \/ RecCheck
    \/ \E c \in Peaks : RecTick(c)
    \/ ReadFault
    \/ Finalize
    \/ Encode
    \/ FanOut

Next == Engine \/ Stop

Spec == Init /\ [][Next]_vars

\* the engine thread is scheduled and its blocking calls return
SpecFair == Spec /\ WF_vars(Engine)

\* the engine together with the threads it starts, on a short capture
FanoutReads == 3

FanoutAudioCfg ==
    [record_threshold |-> 75, rectime |-> 10, vox_silence_time |-> 5,
     timeout_time_sec |-> 1]

InitFanout ==
    /\ EngineInit
    /\ cfg = FanoutAudioCfg
    /\ appcfg \in {DefaultAppCfg, ConfiguredAppCfg, NoBcfyAppCfg}
    /\ clients = ClientsOf(appcfg)
    /\ net = "plain"
    /\ deliverable = FanoutReads
    /\ delays = {0}
    /\ hooks = "none"
    /\ fs = "sound"
    /\ capture = DefaultCapture
    /\ NoFrontEnd

NextFanout == Engine \/ Stop \/ Uploads \/ Cleanups

SpecFanout == InitFanout /\ [][NextFanout]_vars

\* the upload calls alone: the engine has finalized one recording (two loud
\* chunks, one silent chunk), was stopped and has returned; its daemon threads
\* are all still to run, over every value of one destination's fields
Versions == {<<"v">>, <<"v", "D", "E", "V">>}

UploadAppCfgs ==
    {[DefaultAppCfg EXCEPT !.bcfy.api_key = k, !.version = v] :
        k \in FieldStrings, v \in Versions}
    \cup {[DefaultAppCfg EXCEPT !.rdio = r] : r \in RdioCfgs(FieldStrings)}
    \cup {[DefaultAppCfg EXCEPT !.has_icad_dispatch = TRUE, !.icad_dispatch = r] :
            r \in RdioCfgs(FieldStrings)}
    \cup {[DefaultAppCfg EXCEPT !.openmhz = o, !.bcfy.freq_mhz = f] :
            o \in [api_key : FieldStrings, short_name : FieldStrings,
                   tgid : FieldStrings],
            f \in FieldStrings}

\* the engine after that one recording
AfterOneRecording ==
    /\ cfg = FanoutAudioCfg
    /\ pc = "returned"
    /\ stop = TRUE
    /\ streamOpen = FALSE
    /\ pa = FALSE
    /\ ini = <<>>
    /\ reloaded = <<>>
    /\ rec_debounce_counter = 0
    /\ counter = 2
    /\ last_api_attempt = StartTime + 3
    /\ now = StartTime + 3
    /\ tenths = 0
    /\ status = "Waiting For Audio"
    /\ status_color = "blue"
    /\ surfaced = <<Shown("Recording", "green"), Shown("Waiting For Audio", "blue")>>
    /\ bar = 1
    /\ quiet_chunks = 0
    /\ total_chunks = 0
    /\ chunks = <<>>
    /\ taken = <<>>
    /\ timed_out = FALSE
    /\ session = 1
    /\ recFrom = 2
    /\ start_time = 10 * (StartTime + 2)
    /\ wavWritten = {1}
    /\ duration = DurationOf(1, FanoutAudioCfg, DefaultCapture)
    /\ names = {<<1, StartTime + 3>>}
    /\ encoderCalled = {1}
    /\ encoderFailed = {}
    /\ threads = FanOutThreads(StartThread(<<>>, 0, "heartbeat"), 1)
    /\ reads = 3
    /\ appended = 1
    /\ exitBy = "silence"
    /\ idleRun = 0
    /\ readsAfterStop = 0
    /\ deliverable = FanoutReads
    /\ delays = {0}
    /\ hooks = "none"
    /\ disk = {<<StartTime + 3, "mp3">>, <<StartTime + 3, "m4a">>}
    /\ lastBeat = StartTime
    /\ lastEnd = StartTime + 3
    /\ emitted = 1
    /\ idleTicks = 2
    /\ scaleTicks = <<>>
    /\ hookRaised = FALSE

InitUpload ==
    /\ AfterOneRecording
    /\ appcfg \in UploadAppCfgs
    /\ clients = ClientsOf(appcfg)
    /\ net = "any"
    /\ fs = "sound"
    /\ capture = DefaultCapture
    /\ NoFrontEnd

NextUpload == Heartbeats \/ Uploads \/ Cleanups

SpecUpload == InitUpload /\ [][NextUpload]_vars

\* the engine and its heartbeats on a capture whose reads may return late, so
\* that heartbeat periods go by; no API key is configured and the uploads are
\* left where they start
ClockReads == 4

\* a read takes its second, or comes back after 600 or 601 seconds in all
LateBy == {0, 599, 600}

InitClock ==
    /\ EngineInit
    /\ cfg = FanoutAudioCfg
    /\ appcfg = DefaultAppCfg
    /\ clients = ClientsOf(appcfg)
    /\ net = "plain"
    /\ deliverable = ClockReads
    /\ delays = LateBy
    /\ hooks = "none"
    /\ fs = "sound"
    /\ capture = DefaultCapture
    /\ NoFrontEnd

NextClock == Engine \/ Stop \/ \E i \in 1..Len(threads) : HeartbeatStart(i)

SpecClock == InitClock /\ [][NextClock]_vars

\* the engine alone for long enough to show two idle scaleLevels: one audio
\* configuration, hooks that do not raise
CadenceReads == 13

InitCadence ==
    /\ EngineInit
    /\ cfg = FanoutAudioCfg
    /\ appcfg = DefaultAppCfg
    /\ clients = ClientsOf(appcfg)
    /\ net = "plain"
    /\ deliverable = CadenceReads
    /\ delays = {0}
    /\ hooks = "none"
    /\ fs = "sound"
    /\ capture = DefaultCapture
    /\ NoFrontEnd

NextCadence == Engine \/ Stop

SpecCadence == InitCadence /\ [][NextCadence]_vars

\* the cleanup task among the uploads of one recording, archiving on or off,
\* on a file system that may fail and may lose files
InitCleanup ==
    /\ AfterOneRecording
    /\ appcfg \in {[ConfiguredAppCfg EXCEPT !.save_audio = a] : a \in BOOLEAN}
    /\ clients = ClientsOf(appcfg)
    /\ net = "plain"
    /\ fs \in {"sound", "faulty"}
    /\ capture = DefaultCapture
    /\ NoFrontEnd

NextCleanup == Uploads \/ Cleanups \/ FileLost

SpecCleanup == InitCleanup /\ [][NextCleanup]_vars

\* the engine and the cleanup tasks of its recordings, on a file system that
\* may fail; the uploads are left where they start
EncodeReads == 6

InitEncode ==
    /\ EngineInit
    /\ cfg = FanoutAudioCfg
    /\ appcfg \in {[DefaultAppCfg EXCEPT !.save_audio = a] : a \in BOOLEAN}
    /\ clients = ClientsOf(appcfg)
    /\ net = "plain"
    /\ deliverable = EncodeReads
    /\ delays = {0}
    /\ hooks = "none"
    /\ fs \in {"sound", "faulty"}
    /\ capture = DefaultCapture
    /\ NoFrontEnd

NextEncode == Engine \/ Stop \/ Cleanups

SpecEncode == InitEncode /\ [][NextEncode]_vars

\* the engine and its cleanup tasks on reads of a tenth of a second (the
\* default rectime) and a silence time of a tenth, so that a recording takes
\* three reads from the first chunk that counts to its WAV; the uploads are
\* left where they start
NameReads == 9

InitNames ==
    /\ EngineInit
    /\ cfg = NameAudioCfg
    /\ appcfg = DefaultAppCfg
    /\ clients = ClientsOf(appcfg)
    /\ net = "plain"
    /\ deliverable = NameReads
    /\ delays = {0}
    /\ hooks = "none"
    /\ fs = "sound"
    /\ capture = DefaultCapture
    /\ NoFrontEnd

NextNames == Engine \/ Stop \/ Cleanups

SpecNames == InitNames /\ [][NextNames]_vars

\* ------------------------------------------------- presentation layer steps

\* thresholds the layers may be given, before they are clamped
ThresholdsGiven == {-5, 0, 75, 98, 150}

\* level values the hooks may be given
LevelNumbers ==
    {0, 5, 15, 710, 720, 750, 775, 780, 945, 950, 970, 1000, 1500, 1501, 2500,
     3500, 40000, 92000, 96500, 150000,
     -1, -20000, -39600, -40000, -80000, -90000}

Levels ==
    {[kind |-> "num", v |-> n] : n \in LevelNumbers}
    \cup {[kind |-> "nan", v |-> 0], [kind |-> "text", v |-> 0]}

\* the same level update reaches both layers
SetLevel(l) ==
    /\ ui' = [ui EXCEPT !.gui = Gui_set_level(@, ui.thr, l),
                        !.web = Web_set_level(@, ui.thr, l)]
    /\ UNCHANGED <<backVars, ctl>>

\* the threshold is changed in both layers (controller.py:267-271, the
\* threshold slider of app.py:389)
SetThreshold(t) ==
    /\ t # ui.thr
    /\ ui' = [ui EXCEPT !.thr = t]
    /\ UNCHANGED <<backVars, ctl>>

\* the two layers alone, given the same thresholds and the same levels; the
\* engine is not started
InitDisplay ==
    /\ EngineInit
    /\ cfg = FanoutAudioCfg
    /\ appcfg = DefaultAppCfg
    /\ clients = ClientsOf(appcfg)
    /\ net = "plain"
    /\ deliverable = 0
    /\ delays = {0}
    /\ hooks = "none"
    /\ fs = "sound"
    /\ capture = DefaultCapture
    /\ ui \in {UiInit(t) : t \in ThresholdsGiven}
    /\ ctl = CtlInit

NextDisplay ==
    \/ \E l \in Levels : SetLevel(l)
    \/ \E t \in ThresholdsGiven : SetThreshold(t)

SpecDisplay == InitDisplay /\ [][NextDisplay]_vars

\* the engine with a front end's hooks: each level it gives set_bar reaches
\* _set_level; the squelch threshold is the record threshold the engine was
\* built with (controller.py:110)
MeterReads == 7

InitMeter ==
    /\ EngineInit
    /\ cfg \in MeterAudioCfgs
    /\ appcfg = DefaultAppCfg
    /\ clients = ClientsOf(appcfg)
    /\ net = "plain"
    /\ deliverable = MeterReads
    /\ delays = {0}
    /\ hooks = "ui"
    /\ fs = "sound"
    /\ capture = DefaultCapture
    /\ ui = UiInit(cfg.record_threshold)
    /\ ctl = CtlInit

NextMeter == Engine \/ Stop

SpecMeter == InitMeter /\ [][NextMeter]_vars

\* ------------------------------------------------------- the configuration file

\* the decimal digits, each a one-character string
DigitChars == <<"0", "1", "2", "3", "4", "5", "6", "7", "8", "9">>

\* str(n) for an int n >= 0
RECURSIVE StrInt(_)
StrInt(n) ==
    IF n < 10 THEN <<DigitChars[n + 1]>>
    ELSE Append(StrInt(n \div 10), DigitChars[(n % 10) + 1])

\* str(x) for a float x >= 0 given in tenths: "0.1", "1.0", "2.5"
StrTenths(n) == StrInt(n \div 10) \o <<".">> \o StrInt(n % 10)

\* int(t) for a text of digits
RECURSIVE ParseInt(_)
ParseInt(t) ==
    IF Len(t) = 0 THEN 0
    ELSE 10 * ParseInt(SubSeq(t, 1, Len(t) - 1))
         + (CHOOSE v \in 0..9 : DigitChars[v + 1] = t[Len(t)])

\* float(t), in tenths, for a text "digits.digit"
ParseTenths(t) ==
    LET dot == CHOOSE i \in 1..Len(t) : t[i] = "."
    IN  10 * ParseInt(SubSeq(t, 1, dot - 1)) + ParseInt(SubSeq(t, dot + 1, Len(t)))

\* ConfigParser writes "key = value" and reads the value back without the
\* white space around it
ReadBack(text) == Strip(text)

\* save_config (config.py:106-159): the keys written and their texts; nothing
\* of icad_dispatch is written
save_config(c, a) ==
    [record_threshold |-> StrInt(c.record_threshold),
     vox_silence_time |-> StrTenths(c.vox_silence_time),
     rectime |-> StrTenths(c.rectime),
     timeout_time_sec |-> StrInt(c.timeout_time_sec),
     saveaudio |-> IF a.save_audio THEN <<"1">> ELSE <<"0">>,
     BCFY_SystemId |-> a.bcfy.system_id,
     RadioFreq |-> a.bcfy.freq_mhz,
     BCFY_APIkey |-> a.bcfy.api_key,
     BCFY_SlotId |-> a.bcfy.slot_id,
     RDIO_APIkey |-> a.rdio.api_key,
     RDIO_APIurl |-> a.rdio.api_url,
     RDIO_system |-> a.rdio.system,
     RDIO_tg |-> a.rdio.talkgroup,
     openmhz_api_key |-> a.openmhz.api_key,
     openmhz_short_name |-> a.openmhz.short_name,
     openmhz_tgid |-> a.openmhz.tgid]

\* load_config (config.py:58-104): an AppCfg() filled from the keys of the
\* file; AppCfg has no icad_dispatch (config.py:44-56) and load_config gives
\* it none
load_config(f) ==
    [audio |-> [record_threshold |-> ParseInt(ReadBack(f.record_threshold)),
                rectime |-> ParseTenths(ReadBack(f.rectime)),
                vox_silence_time |-> ParseTenths(ReadBack(f.vox_silence_time)),
                timeout_time_sec |-> ParseInt(ReadBack(f.timeout_time_sec))],
     app |-> [bcfy |-> [api_key |-> ReadBack(f.BCFY_APIkey),
                        system_id |-> ReadBack(f.BCFY_SystemId),
                        slot_id |-> ReadBack(f.BCFY_SlotId),
                        freq_mhz |-> ReadBack(f.RadioFreq)],
              rdio |-> [api_url |-> ReadBack(f.RDIO_APIurl),
                        api_key |-> ReadBack(f.RDIO_APIkey),
                        system |-> ReadBack(f.RDIO_system),
                        talkgroup |-> ReadBack(f.RDIO_tg)],
              has_icad_dispatch |-> FALSE,
              icad_dispatch |-> DefaultAppCfg.icad_dispatch,
              openmhz |-> [api_key |-> ReadBack(f.openmhz_api_key),
                           short_name |-> ReadBack(f.openmhz_short_name),
                           tgid |-> ReadBack(f.openmhz_tgid)],
              save_audio |-> ParseInt(ReadBack(f.saveaudio)) # 0,
              version |-> DefaultAppCfg.version]]

\* save_config(path, cfg) on a path that holds no file yet
SaveConfig ==
    /\ ini = <<>>
    /\ ini' = <<save_config(cfg, appcfg)>>
    /\ UNCHANGED <<cfg, pc, stop, streamOpen, pa, rec_debounce_counter, counter,
                   last_api_attempt, now, tenths, status, status_color, surfaced, bar,
                   quiet_chunks, total_chunks, chunks, taken, timed_out, session,
                   recFrom, start_time, wavWritten, duration, names, encoderCalled, encoderFailed, threads,
                   reads, appended, exitBy, idleRun, readsAfterStop, disk, lastBeat,
                   lastEnd, emitted, idleTicks, scaleTicks, hookRaised, appcfg,
                   clients, net, deliverable, delays, hooks, fs, capture, reloaded, frontVars>>

\* load_config(path) on the file written
LoadConfig ==
    /\ ini # <<>>
    /\ reloaded = <<>>
    /\ reloaded' = <<load_config(ini[1])>>
    /\ UNCHANGED <<cfg, pc, stop, streamOpen, pa, rec_debounce_counter, counter,
                   last_api_attempt, now, tenths, status, status_color, surfaced, bar,
                   quiet_chunks, total_chunks, chunks, taken, timed_out, session,
                   recFrom, start_time, wavWritten, duration, names, encoderCalled, encoderFailed, threads,
                   reads, appended, exitBy, idleRun, readsAfterStop, disk, lastBeat,
                   lastEnd, emitted, idleTicks, scaleTicks, hookRaised, appcfg,
                   clients, net, deliverable, delays, hooks, fs, capture, ini, frontVars>>

\* the configurations saved: the audio values the engine may be built with,
\* archiving on or off, one destination's fields over a few texts, the second
\* Rdio-compatible sink absent, blank or configured
SavedAppCfgs ==
    {[DefaultAppCfg EXCEPT !.bcfy.api_key = k, !.rdio.api_url = u,
                           !.save_audio = sa] :
        k \in {Blank, <<"k">>}, u \in {Blank, <<"k">>}, sa \in BOOLEAN}
    \cup {[DefaultAppCfg EXCEPT !.has_icad_dispatch = TRUE,
                                !.icad_dispatch = IF full
                                                  THEN ConfiguredAppCfg.icad_dispatch
                                                  ELSE @,
                                !.openmhz = o] :
            full \in BOOLEAN,
            o \in {DefaultAppCfg.openmhz, ConfiguredAppCfg.openmhz}}

InitConfig ==
    /\ EngineInit
    /\ cfg \in AudioCfgs \cup {NameAudioCfg}
    /\ appcfg \in SavedAppCfgs
    /\ clients = ClientsOf(appcfg)
    /\ net = "plain"
    /\ deliverable = 0
    /\ delays = {0}
    /\ hooks = "none"
    /\ fs = "sound"
    /\ capture = DefaultCapture
    /\ NoFrontEnd

NextConfig == SaveConfig \/ LoadConfig

SpecConfig == InitConfig /\ [][NextConfig]_vars

\* ------------------------------------------------------ patched destinations

\* an AppCfg with Broadcastify, Rdio and OpenMHz fully configured
PatchedAppCfg ==
    [DefaultAppCfg EXCEPT !.bcfy = ConfiguredAppCfg.bcfy,
                          !.rdio = ConfiguredAppCfg.rdio,
                          !.openmhz = ConfiguredAppCfg.openmhz]

\* the destinations a patch of the bcfy, rdio and openmhz sections reaches
PatchedDestinations == {"bcfy", "rdio", "openmhz"}

\* the recordings fanned out so far
FannedOut ==
    IF \E i \in 1..Len(threads) : threads[i].sid > 0
    THEN CHOOSE n \in 1..session :
            /\ \E i \in 1..Len(threads) : threads[i].sid = n
            /\ \A i \in 1..Len(threads) : threads[i].sid <= n
    ELSE 0

\* patch_config with destination fields only, on a running engine
\* (controller.py:289-332): the fields of self.cfg are assigned and saved;
\* nothing sets restart_needed, and the clients the engine built from the old
\* values (engine.py:57-82) are not touched
PatchDestinations(a) ==
    /\ pc \notin {"init", "returned", "raised"}
    /\ ctl.patchedAt = -1
    /\ a # appcfg
    /\ appcfg' = a
    /\ ctl' = [ctl EXCEPT !.patchedAt = FannedOut]
    /\ UNCHANGED <<cfg, pc, stop, streamOpen, pa, rec_debounce_counter, counter,
                   last_api_attempt, now, tenths, status, status_color, surfaced, bar,
                   quiet_chunks, total_chunks, chunks, taken, timed_out, session,
                   recFrom, start_time, wavWritten, duration, names, encoderCalled, encoderFailed, threads,
                   reads, appended, exitBy, idleRun, readsAfterStop, disk, lastBeat,
                   lastEnd, emitted, idleTicks, scaleTicks, hookRaised,
                   clients, net, deliverable, delays, hooks, fs, capture, ini, reloaded, ui>>

\* the engine and its upload threads, with one patch of the destinations
\* arriving at any moment while the engine runs
PatchReads == 3

InitPatch ==
    /\ EngineInit
    /\ cfg = FanoutAudioCfg
    /\ appcfg \in {DefaultAppCfg, PatchedAppCfg}
    /\ clients = ClientsOf(appcfg)
    /\ net = "plain"
    /\ deliverable = PatchReads
    /\ delays = {0}
    /\ hooks = "none"
    /\ fs = "sound"
    /\ capture = DefaultCapture
    /\ NoFrontEnd

NextPatch ==
    \/ Engine
    \/ Stop
    \/ Uploads
    \/ \E a \in {DefaultAppCfg, PatchedAppCfg} : PatchDestinations(a)

SpecPatch == InitPatch /\ [][NextPatch]_vars

\* ------------------------------------------------------- the channel selection

\* the in_channel values of the settings form, and two rates a device may
\* negotiate (stream.py:92)
InChannels == {"mono", "left", "right"}
Rates == {8000, 44100}

\* an engine built for in_channel ch whose stream negotiated rate r
\* (stream.py:74, 87-100)
Captures ==
    {[in_channel |-> ch, channels |-> Channels(ch), rate |-> r] :
        ch \in InChannels, r \in Rates}

\* patch_config with audio.in_channel on a running engine (controller.py:264-266,
\* 330-332): cfg.audio, the object the engine and its stream hold, is assigned,
\* and stop() sets the engine's stop event; the stream keeps the channels it
\* opened with (stream.py:74)
PatchChannel(ch) ==
    /\ pc \notin {"init", "returned", "raised"}
    /\ ~stop
    /\ ch # capture.in_channel
    /\ capture' = [capture EXCEPT !.in_channel = ch]
    /\ stop' = TRUE
    /\ UNCHANGED <<cfg, pc, streamOpen, pa, rec_debounce_counter, counter,
                   last_api_attempt, now, tenths, status, status_color, surfaced, bar,
                   quiet_chunks, total_chunks, chunks, taken, timed_out, session,
                   recFrom, start_time, wavWritten, duration, names, encoderCalled,
                   encoderFailed, threads, reads, appended, exitBy, idleRun,
                   readsAfterStop, disk, lastBeat, lastEnd, emitted, idleTicks,
                   scaleTicks, hookRaised, appcfg, clients, net, deliverable, delays,
                   hooks, fs, ini, reloaded, frontVars>>

\* the engine and its upload threads on each capture, with a patch of the
\* channel arriving at any moment while the engine runs
DurationReads == 3

InitDuration ==
    /\ EngineInit
    /\ cfg = FanoutAudioCfg
    /\ appcfg = PatchedAppCfg
    /\ clients = ClientsOf(appcfg)
    /\ net = "plain"
    /\ deliverable = DurationReads
    /\ delays = {0}
    /\ hooks = "none"
    /\ fs = "sound"
    /\ capture \in Captures
    /\ NoFrontEnd

NextDuration ==
    \/ Engine
    \/ Stop
    \/ Uploads
    \/ \E ch \in InChannels : PatchChannel(ch)

SpecDuration == InitDuration /\ [][NextDuration]_vars

\* ------------------------------------------------------------ the controller

\* engines one controller creates over its life
MaxEngines == 3

\* Thread.is_alive(): started, and _run has not returned
Alive(c, i) == c.workers[i].at # "finished"

\* the thread is inside run_forever: the stream is opened on entry and closed
\* on the way out (engine.py:89-94)
Executing(c, i) == c.workers[i].at \in {"loop", "read", "encode"}

\* start() forgets a dead thread first, and creates nothing while the thread
\* it holds is alive
Ctl_creates(c) == c.engine_thread = 0 \/ ~Alive(c, c.engine_thread)

\* start(): a new engine and a new daemon thread that will run it
Ctl_start(c) ==
    LET swept == IF c.engine_thread # 0 /\ ~Alive(c, c.engine_thread)
                 THEN [c EXCEPT !.engine = 0, !.engine_thread = 0,
                                !.running = FALSE]
                 ELSE c
        id == Len(c.workers) + 1
    IN  IF swept.engine_thread # 0 THEN swept
        ELSE [swept EXCEPT !.engine = id, !.engine_thread = id,
                           !.workers = Append(@, [at |-> "started", stop |-> FALSE,
                                                  encoded |-> FALSE])]

\* the end of stop(): the references are dropped and the state says stopped,
\* whether the join returned or timed out
Ctl_forget(c) ==
    [c EXCEPT !.engine = 0, !.engine_thread = 0, !.running = FALSE,
              !.call = "none"]

\* eng.stop() of stop(): the stop event of the engine held, if any
Ctl_signal(c) ==
    IF c.engine = 0 THEN c
    ELSE [c EXCEPT !.workers[c.engine].stop = TRUE]

\* stop() up to the join: returns at once when no live thread is held,
\* otherwise waits in th.join(timeout=2.0); next names the call that follows
Ctl_stop(c, next) ==
    LET s == Ctl_signal(c)
    IN  IF s.engine_thread # 0 /\ Alive(s, s.engine_thread)
        THEN [s EXCEPT !.call = next]
        ELSE IF next = "join_start" THEN Ctl_start(Ctl_forget(s))
        ELSE Ctl_forget(s)

ControllerStart ==
    /\ ctl.call = "none"
    /\ Ctl_creates(ctl) => Len(ctl.workers) < MaxEngines
    /\ ctl' = Ctl_start(ctl)
    /\ UNCHANGED <<backVars, ui>>

ControllerStop ==
    /\ ctl.call = "none"
    /\ ctl' = Ctl_stop(ctl, "join")
    /\ UNCHANGED <<backVars, ui>>

\* the fields of cfg.audio a patch may carry (controller.py:260-279)
AudioFields ==
    {"device_index", "in_channel", "record_threshold", "rectime",
     "vox_silence_time", "timeout_time_sec"}

\* the patches given to patch_config, by the audio fields they carry: none,
\* one, or all
Patches == {{}} \cup {{f} : f \in AudioFields} \cup {AudioFields}

\* a patch_config that restarts on every audio field
RestartNeeded_AnyAudio(fields) == fields # {}

\* patch_config: restart_needed (controller.py:243, 260-279) is set by
\* device_index, in_channel and rectime, and by no other field
RestartNeeded(fields) ==
    fields \cap {"device_index", "in_channel", "rectime"} # {}

\* patch_config: stop() then start() when the patch set restart_needed and
\* the state says running (controller.py:330-332)
PatchConfig(fields) ==
    /\ ctl.call = "none"
    /\ Len(ctl.workers) < MaxEngines
    /\ LET patched == [ctl EXCEPT !.patch = fields]
       IN  ctl' = IF RestartNeeded(fields) /\ ctl.running
                  THEN Ctl_stop(patched, "join_start")
                  ELSE patched
    /\ UNCHANGED <<backVars, ui>>

\* th.join(timeout=2.0) returns because the thread ended
JoinReturns ==
    /\ ctl.call \in {"join", "join_start"}
    /\ ~Alive(ctl, ctl.engine_thread)
    /\ ctl' = IF ctl.call = "join_start" THEN Ctl_start(Ctl_forget(ctl))
              ELSE Ctl_forget(ctl)
    /\ UNCHANGED <<backVars, ui>>

\* th.join(timeout=2.0) gives up: the thread is in a chunk read or in an
\* encode that outlasts the two seconds
JoinTimesOut ==
    /\ ctl.call \in {"join", "join_start"}
    /\ ctl.workers[ctl.engine_thread].at \in {"read", "encode"}
    /\ ctl' = IF ctl.call = "join_start" THEN Ctl_start(Ctl_forget(ctl))
              ELSE Ctl_forget(ctl)
    /\ UNCHANGED <<backVars, ui>>

\* _run begins: the state says running, run_forever opens the stream
WorkerOpens(i) ==
    /\ ctl.workers[i].at = "started"
    /\ ctl' = [ctl EXCEPT !.running = TRUE, !.workers[i].at = "loop"]
    /\ UNCHANGED <<backVars, ui>>

\* stream.open() raises (no supported rate, device refused): _run reports the
\* error and its finally says stopped
WorkerOpenFails(i) ==
    /\ ctl.workers[i].at = "started"
    /\ ctl' = [ctl EXCEPT !.running = FALSE, !.workers[i].at = "finished"]
    /\ UNCHANGED <<backVars, ui>>

\* the while test of _loop: on to the next chunk read, or out of run_forever
\* (the stream is closed, the finally of _run says stopped)
WorkerLoops(i) ==
    /\ ctl.workers[i].at = "loop"
    /\ ctl' = IF ctl.workers[i].stop
              THEN [ctl EXCEPT !.running = FALSE, !.workers[i].at = "finished"]
              ELSE [ctl EXCEPT !.workers[i].at = "read"]
    /\ UNCHANGED <<backVars, ui>>

\* a chunk read returns: back to a loop test, or the recording it ended is
\* written and encoded (a recording ended by stop is encoded too)
WorkerReads(i) ==
    /\ ctl.workers[i].at = "read"
    /\ \E next \in {"loop", "encode"} :
          ctl' = [ctl EXCEPT !.workers[i].at = next]
    /\ UNCHANGED <<backVars, ui>>

\* the encode returns and _handle_recording with it
WorkerEncoded(i) ==
    /\ ctl.workers[i].at = "encode"
    /\ ctl' = [ctl EXCEPT !.workers[i].at = "loop", !.workers[i].encoded = TRUE]
    /\ UNCHANGED <<backVars, ui>>

Workers ==
    \/ \E i \in 1..Len(ctl.workers) : WorkerOpens(i)
    \/ \E i \in 1..Len(ctl.workers) : WorkerOpenFails(i)
    \/ \E i \in 1..Len(ctl.workers) : WorkerLoops(i)
    \/ \E i \in 1..Len(ctl.workers) : WorkerReads(i)
    \/ \E i \in 1..Len(ctl.workers) : WorkerEncoded(i)

\* one caller of the controller and the engine threads it created; the
\* engine's own state is not followed
InitController ==
    /\ EngineInit
    /\ cfg = FanoutAudioCfg
    /\ appcfg = DefaultAppCfg
    /\ clients = ClientsOf(appcfg)
    /\ net = "plain"
    /\ deliverable = 0
    /\ delays = {0}
    /\ hooks = "none"
    /\ fs = "sound"
    /\ capture = DefaultCapture
    /\ NoFrontEnd

NextController ==
    \/ ControllerStart
    \/ ControllerStop
    \/ \E fields \in Patches : PatchConfig(fields)
    \/ JoinReturns
    \/ JoinTimesOut
    \/ Workers

SpecController == InitController /\ [][NextController]_vars


\* ------------------------------------------------------------- the event bus

\* asyncio.Queue(maxsize=200) (controller.py:53), scaled down
maxsize == 2

\* clients that connect, and calls of emit
MaxClients == 2
MaxEmits == 4

\* the members of a sequence
Members(seq) == {seq[k] : k \in 1..Len(seq)}

\* list.remove(q) on a list that holds q once
Without(seq, c) == SelectSeq(seq, LAMBDA x : x # c)

\* a queue that makes room by dropping its oldest event
put_nowait_DropOldest(queue, data) ==
    IF Len(queue) < maxsize THEN Append(queue, data) ELSE Append(Tail(queue), data)

\* Queue.put_nowait under "except asyncio.QueueFull: pass" (controller.py:72-76)
put_nowait(queue, data) ==
    IF Len(queue) < maxsize THEN Append(queue, data) ELSE queue

\* app.py:26  bus.set_loop(asyncio.get_running_loop()) at startup
SetLoop ==
    /\ ctl.bus.loop = "none"
    /\ ctl' = [ctl EXCEPT !.bus.loop = "running"]
    /\ UNCHANGED <<backVars, ui>>

\* the event loop is closed at shutdown: callbacks left are never run
LoopCloses ==
    /\ ctl.bus.loop = "running"
    /\ ctl' = [ctl EXCEPT !.bus.loop = "closed", !.bus.pending = <<>>]
    /\ UNCHANGED <<backVars, ui>>

\* WebEventBus.add_client, called by sse_events on the loop (controller.py:52-56,
\* app.py:98)
AddClient ==
    /\ ctl.bus.loop = "running"
    /\ Len(ctl.bus.q) < MaxClients
    /\ ctl' = [ctl EXCEPT !.bus.queues = Append(@, Len(ctl.bus.q) + 1),
                          !.bus.q = Append(@, <<>>),
                          !.bus.got = Append(@, <<>>),
                          !.bus.removedAt = Append(@, -1)]
    /\ UNCHANGED <<backVars, ui>>

\* WebEventBus.remove_client, called when the generator of client c ends
\* (controller.py:58-61, app.py:117-121)
RemoveClient(c) ==
    /\ c \in Members(ctl.bus.queues)
    /\ ctl' = [ctl EXCEPT !.bus.queues = Without(@, c),
                          !.bus.removedAt[c] = ctl.bus.emits]
    /\ UNCHANGED <<backVars, ui>>

\* WebEventBus.emit on any thread (controller.py:63-85): nothing without a
\* loop; else the text is built and _fanout handed to call_soon_threadsafe,
\* which raises on a closed loop; no queue is touched. The text of the n-th
\* call is n
Emit ==
    /\ ctl.bus.emits < MaxEmits
    /\ LET data == ctl.bus.emits + 1
       IN  ctl' = [ctl EXCEPT !.bus.emits = @ + 1,
                              !.bus.pending = IF ctl.bus.loop = "running"
                                              THEN Append(@, data) ELSE @]
    /\ UNCHANGED <<backVars, ui>>

\* the loop runs the oldest _fanout (controller.py:68-80): put_nowait on each
\* queue of a copy of _queues
Fanout ==
    /\ ctl.bus.loop = "running"
    /\ ctl.bus.pending # <<>>
    /\ ctl' = [ctl EXCEPT !.bus.pending = Tail(@),
                          !.bus.q = [c \in 1..Len(@) |->
                                        IF c \in Members(ctl.bus.queues)
                                        THEN put_nowait(@[c], Head(ctl.bus.pending))
                                        ELSE @[c]]]
    /\ UNCHANGED <<backVars, ui>>

\* the generator of client c takes the next event of its queue (app.py:106-111)
Get(c) ==
    /\ ctl.bus.loop = "running"
    /\ c \in Members(ctl.bus.queues)
    /\ ctl.bus.q[c] # <<>>
    /\ ctl' = [ctl EXCEPT !.bus.got[c] = Append(@, Head(ctl.bus.q[c])),
                          !.bus.q[c] = Tail(@)]
    /\ UNCHANGED <<backVars, ui>>

InitBus ==
    /\ EngineInit
    /\ cfg = FanoutAudioCfg
    /\ appcfg = DefaultAppCfg
    /\ clients = ClientsOf(appcfg)
    /\ net = "plain"
    /\ deliverable = 0
    /\ delays = {0}
    /\ hooks = "none"
    /\ fs = "sound"
    /\ capture = DefaultCapture
    /\ NoFrontEnd

NextBus ==
    \/ SetLoop
    \/ LoopCloses
    \/ AddClient
    \/ \E c \in 1..Len(ctl.bus.q) : RemoveClient(c)
    \/ Emit
    \/ Fanout
    \/ \E c \in 1..Len(ctl.bus.q) : Get(c)

SpecBus == InitBus /\ [][NextBus]_vars

\* ------------------------------------------------------------------ claims

IdlePcs == {"idle_check", "idle_read"}
RecordingPcs == {"rec_check", "rec_read"}
SessionPcs == RecordingPcs \cup {"finalize", "encode", "fanout"}

\* the engine has just entered Recording
JustTriggered == pc = "rec_check" /\ total_chunks = 0

\* no thread was started for session sid
NoThreadsOf(sid) == \A t \in Targets : ThreadsOf(sid, t) = {}

\* exactly one thread per destination and one cleanup thread for session sid
OneThreadEach(sid) == \A t \in Targets : Cardinality(ThreadsOf(sid, t)) = 1

\* C1: with threshold > 0, while the engine stays in Idle fewer than two
\* consecutive above-threshold chunks have been read (two in a row always
\* trigger), and Recording is entered only right after the second of two
\* consecutive above-threshold idle chunks, with the debounce counter back at 0.
C1_Debounce ==
    cfg.record_threshold > 0 =>
        /\ pc \in IdlePcs => idleRun < DebounceNeeded
        /\ JustTriggered => idleRun = DebounceNeeded /\ rec_debounce_counter = 0

C1_Witness ==
    /\ cfg.record_threshold > 0
    /\ JustTriggered
    /\ session = 2
    /\ reads >= 6

\* C2: when the recording loop has left more than silenceNeeded chunks in the
\* buffer, the finalized buffer holds exactly appended - silenceNeeded chunks.
C2_SilenceTrim ==
    (pc \in {"encode", "fanout"} /\ appended > silence_needed(cfg)) =>
        Len(chunks) = appended - silence_needed(cfg)

C2_Witness ==
    /\ pc = "encode"
    /\ exitBy = "silence"
    /\ silence_needed(cfg) = 2
    /\ appended = silence_needed(cfg) + 1
    /\ Len(chunks) = 1

\* C3: in a recording session the buffer never holds more than
\* timeoutNeeded + 1 chunks, a tick that starts timed out appends nothing,
\* and the timed-out flag stays set until the session ends.
C3_TimeoutBound ==
    pc \in SessionPcs => Len(chunks) <= timeout_needed(cfg) + 1

C3_TimeoutSticky ==
    /\ (timed_out /\ pc \in RecordingPcs) => chunks' = chunks
    /\ (timed_out /\ pc \in SessionPcs /\ pc' \in SessionPcs) => timed_out'

C3_Timeout == []C3_TimeoutBound /\ [][C3_TimeoutSticky]_vars

C3_Witness ==
    /\ timed_out
    /\ pc = "rec_check"
    /\ Len(chunks) = timeout_needed(cfg) + 1
    /\ total_chunks = timeout_needed(cfg) + 3

\* C4 as claimed: a session whose recording loop was ended by a stop request
\* writes no WAV, invokes no encoder and starts no upload or cleanup thread.
C4_StopDiscards ==
    exitBy = "stop" =>
        /\ session \notin wavWritten
        /\ session \notin encoderCalled
        /\ NoThreadsOf(session)

\* C4 amended: a stop request observed in Recording ends the recording loop;
\* the session is discarded without finalizing only when its buffer is empty,
\* and a non-empty buffer is finalized as after a silence exit: the WAV is
\* written, the encoder invoked and, when it succeeds, all five threads started.
C4_StopFinalizesWhatItHas ==
    exitBy = "stop" =>
        /\ pc \notin RecordingPcs
        /\ appended = 0 =>
            /\ session \notin wavWritten
            /\ session \notin encoderCalled
            /\ NoThreadsOf(session)
        /\ (appended > 0 /\ pc \in IdlePcs \cup {"returned"}) =>
            /\ session \in wavWritten
            /\ session \in encoderCalled
            /\ session \notin encoderFailed => OneThreadEach(session)

C4_Witness ==
    /\ exitBy = "stop"
    /\ appended > 0
    /\ pc = "returned"
    /\ OneThreadEach(session)

\* C5: after stop() the engine reads at most one further chunk, a stop
\* request seen by a loop test never starts another iteration, and, when the
\* capture stream still delivers the read in flight, run_forever ends.
C5_OneMoreRead == readsAfterStop <= 1

C5_NoNewIteration ==
    (stop /\ pc \in {"idle_check", "rec_check"}) => pc' \notin {"idle_read", "rec_read"}

C5_Ended == pc \in {"returned", "raised"}

C5_StopLatency ==
    /\ []C5_OneMoreRead
    /\ [][C5_NoNewIteration]_vars
    /\ (stop /\ reads < deliverable) ~> C5_Ended

C5_Witness ==
    /\ stop
    /\ readsAfterStop = 1
    /\ pc = "returned"
    /\ session = 1

\* C9: a session whose encode failed shows "Encode failed", has no upload and
\* no cleanup thread, and leaves the engine in Idle with a debounce counter
\* that counts the above-threshold chunks read since, so that two such chunks
\* in a row start the next recording.
C9_EncodeFailure ==
    \A s \in encoderFailed :
        /\ NoThreadsOf(s)
        /\ s = session =>
            /\ pc \in IdlePcs \cup {"returned", "raised"}
            /\ status = "Encode failed"
            /\ status_color = "red"
            /\ pc \in IdlePcs => rec_debounce_counter = idleRun

C9_Witness ==
    /\ session = 2
    /\ 1 \in encoderFailed
    /\ JustTriggered
    /\ NoThreadsOf(1)

\* ---- C6

\* the sessions whose encoder call returned and whose fan-out has run
Dispatched ==
    {s \in encoderCalled \ encoderFailed : ~(s = session /\ pc = "fanout")}

\* the step that leaves the fan-out returns to Idle, shows "Waiting For
\* Audio" and leaves all five threads of the session still to run
C6_ReturnsAtOnce ==
    (pc = "fanout" /\ pc' # "fanout") =>
        /\ pc' = "idle_check"
        /\ status' = "Waiting For Audio"
        /\ Len(threads') = Len(threads) + 5
        /\ \A i \in (Len(threads) + 1)..Len(threads') :
            threads'[i].sid = session /\ threads'[i].st = "pending"

C6_OneTaskEach == \A s \in Dispatched : OneThreadEach(s)

\* C6: every recording whose encoder succeeded has exactly one thread per
\* destination (Broadcastify, both Rdio sinks, OpenMHz) and exactly one
\* cleanup thread, and the fan-out step itself returns the engine to Idle with
\* "Waiting For Audio" while those threads are still pending.
C6_FanOut == []C6_OneTaskEach /\ [][C6_ReturnsAtOnce]_vars

C6_Witness ==
    /\ session = 2
    /\ Dispatched = {1, 2}
    /\ pc = "idle_read"
    /\ status = "Waiting For Audio"
    /\ Len(threads) = 11
    /\ \A i \in 1..Len(threads) : threads[i].st = "pending"

\* ---- C7

ThreadEnded == {"skipped", "failed", "raised", "ok", "done"}

\* a step of thread i
ThreadStep(i) ==
    \/ HeartbeatStart(i) \/ HeartbeatAnswer(i)
    \/ BcfyStart(i) \/ BcfyPostAnswer(i) \/ BcfyPutAnswer(i)
    \/ RdioStart(i) \/ RdioAnswer(i)
    \/ OpenMHzStart(i) \/ OpenMHzAnswer(i)
    \/ CleanupStart(i) \/ CleanupFinish(i)

\* a step that moves one thread moves nothing of the engine, no other thread
\* and no other destination's client
C7_Frame ==
    \A i \in 1..Len(threads) :
        threads'[i] # threads[i] =>
            /\ engineVars' = engineVars
            /\ Len(threads') = Len(threads)
            /\ \A j \in 1..Len(threads) : j # i => threads'[j] = threads[j]
            /\ \A d \in Destinations : d # threads[i].target => clients'[d] = clients[d]

\* whatever the threads have come to, the engine has a step to take until
\* run_forever ends
C7_EngineFree == pc \notin {"returned", "raised"} => ENABLED Engine

\* whatever the other threads have come to, a thread that has not ended has a
\* step to take
C7_ThreadFree ==
    \A i \in 1..Len(threads) :
        threads[i].st \notin ThreadEnded => ENABLED ThreadStep(i)

\* C7: an upload or cleanup thread, whether it is skipped, fails, raises, hangs
\* or succeeds, changes nothing of the engine, of another thread or of another
\* destination's client, and neither the engine nor another thread ever waits
\* for it.
C7_FailureIsolation ==
    /\ []C7_EngineFree
    /\ []C7_ThreadFree
    /\ [][C7_Frame]_vars

C7_Witness ==
    /\ pc = "idle_read"
    /\ session = 1
    /\ \E i \in ThreadsOf(1, "bcfy") : threads[i].st = "raised"
    /\ \E i \in ThreadsOf(1, "rdio") : threads[i].st = "ok"
    /\ \E i \in ThreadsOf(1, "icad") : threads[i].st = "posted"
    /\ \E i \in ThreadsOf(1, "openmhz") : threads[i].st = "failed"
    /\ \E i \in ThreadsOf(1, "cleanup") : threads[i].st = "done"

\* ---- C8

\* the fields a destination needs, as the engine gave them to its client
RequiredFields(d) ==
    LET c == ClientsOf(appcfg)[d]
    IN  IF d = "bcfy" THEN {c.api_key}
        ELSE IF d = "openmhz" THEN {c.api_key, c.short_name, c.tgid, c.freq_mhz}
        ELSE {c.api_url, c.api_key, c.system, c.talkgroup}

FirstTokenIsZero(t) ==
    Len(t) >= 1 /\ t[1] = "0" /\ (Len(t) >= 2 => t[2] = " ")

\* t starts "0 ": the text after that space up to the next space or the end
SecondToken(t) ==
    LET E == {k \in 3..(Len(t) + 1) : k = Len(t) + 1 \/ t[k] = " "}
    IN  SubSeq(t, 3, (CHOOSE k \in E : \A j \in E : k <= j) - 1)

IsPut(r) == r.method = "PUT"

\* C10: a Broadcastify thread issues a PUT only as its second and last
\* request, after its POST was answered with a success status and a body whose
\* first space-separated token is "0" and which has a second token, and the
\* PUT goes to that second token; after any other answer it issues no PUT.
C10_TwoPhase ==
    \A i \in 1..Len(threads) :
        (threads[i].target = "bcfy"
            /\ \E k \in 1..Len(threads[i].sent) : IsPut(threads[i].sent[k])) =>
            /\ Len(threads[i].sent) = 2
            /\ threads[i].sent[1].method = "POST"
            /\ IsPut(threads[i].sent[2])
            /\ Len(threads[i].got) = 1
            /\ LET a == threads[i].got[1]
               IN  /\ 200 <= a.status /\ a.status < 300
                   /\ a.body.utf8
                   /\ FirstTokenIsZero(a.body.text)
                   /\ Len(a.body.text) >= 2
                   /\ threads[i].sent[2].url = SecondToken(a.body.text)

C10_Witness ==
    \E i \in 1..Len(threads) :
        /\ threads[i].target = "bcfy"
        /\ threads[i].st = "ok"
        /\ Len(threads[i].sent) = 2
        /\ threads[i].got[1].body.text = <<"0", " ", "u">>
        /\ threads[i].sent[2] = [method |-> "PUT", url |-> <<"u">>]

\* ---- C11

C11_OnePerRecording ==
    \A s \in Dispatched : Cardinality(ThreadsOf(s, "cleanup")) = 1

\* the copy into the archive is made by a cleanup task that has deleted nothing
\* yet, from an MP3 that is there, and only when archiving is enabled
C11_CopyBeforeDelete ==
    \A s \in 1..session :
        (<<NameOf(s), "archive">> \in disk' /\ <<NameOf(s), "archive">> \notin disk) =>
            /\ appcfg.save_audio
            /\ <<NameOf(s), "mp3">> \in disk
            /\ \A i \in ThreadsOf(s, "cleanup") : threads[i].st = "pending"

\* a cleanup task that has ended has left neither the MP3 nor the M4A, as long
\* as no removal fails with another error than the file being missing
C11_EndsDeleted ==
    \A i \in 1..Len(threads) :
        (threads[i].target = "cleanup" /\ threads[i].st \in ThreadEnded
            /\ fs = "sound") =>
            /\ <<NameOf(threads[i].sid), "mp3">> \notin disk
            /\ <<NameOf(threads[i].sid), "m4a">> \notin disk

\* C11 as claimed: every finalized recording has exactly one cleanup task,
\* whatever its uploads come to; with archiving enabled the MP3 is copied
\* before anything is deleted; and the task always ends with both the MP3 and
\* the M4A deleted, a file already missing being no error.
C11_Cleanup ==
    /\ []C11_OnePerRecording
    /\ []C11_EndsDeleted
    /\ [][C11_CopyBeforeDelete]_vars

\* ---- C12

\* the step that finalizes a buffer of at least one and at most silenceNeeded
\* chunks leaves the buffer as the recording loop left it
C12_Untrimmed ==
    (/\ pc = "finalize"
     /\ pc' = "encode"
     /\ Len(chunks) >= 1
     /\ Len(chunks) <= silence_needed(cfg)) => chunks' = chunks

\* C12: a session whose buffer holds between one and silenceNeeded chunks when
\* the recording loop exits is finalized with that buffer unchanged, an
\* all-quiet buffer of exactly silenceNeeded chunks included.
C12_TrimBoundary == [][C12_Untrimmed]_vars

C12_Witness ==
    /\ pc = "encode"
    /\ exitBy = "silence"
    /\ cfg.record_threshold > 0
    /\ silence_needed(cfg) = 2
    /\ appended = 2
    /\ chunks = <<0, 0>>

\* ---- C13

\* the loop test ends the recording loop exactly when enough quiet chunks were
\* counted or a stop was requested, and otherwise goes on to the next read,
\* timed out or not; nothing else but a failing read leaves Recording
C13_ExitRule ==
    /\ (pc = "rec_check" /\ pc' # pc) =>
        /\ pc' = "finalize" <=> (quiet_chunks >= silence_needed(cfg) \/ stop)
        /\ pc' = "rec_read" <=> (quiet_chunks < silence_needed(cfg) /\ ~stop)
    /\ (pc = "rec_read" /\ pc' # pc) => pc' \in {"rec_check", "raised"}

C13_Exits ==
    (/\ pc \in RecordingPcs
     /\ quiet_chunks >= silence_needed(cfg) \/ (stop /\ reads < deliverable))
        ~> (pc \notin RecordingPcs)

\* C13: the recording loop exits exactly when quietChunks >= silenceNeeded or
\* a stop request is set; once either holds and the read in flight is
\* delivered, the session leaves Recording; reaching the timeout alone never
\* ends the loop.
C13_Termination == [][C13_ExitRule]_vars /\ C13_Exits

C13_Witness ==
    /\ pc = "finalize"
    /\ exitBy = "silence"
    /\ timed_out
    /\ ~stop
    /\ total_chunks > timeout_needed(cfg) + 2

\* ---- C14

C15_EmptyStep ==
    (pc = "finalize" /\ chunks = <<>> /\ pc' # pc) =>
        /\ status' = "No audio captured"
        /\ status_color' = "red"
        /\ pc' = "idle_check"
        /\ wavWritten' = wavWritten
        /\ encoderCalled' = encoderCalled
        /\ threads' = threads
        /\ disk' = disk

\* a session whose recording loop ended with nothing appended has no WAV, no
\* encoder call and no thread
C15_NoOutput ==
    (appended = 0 /\ exitBy # "none") =>
        /\ pc # "encode" /\ pc # "fanout"
        /\ session \notin wavWritten
        /\ session \notin encoderCalled
        /\ NoThreadsOf(session)
        /\ \A n \in names : n[1] # session

\* C15: when the recording loop exits with zero buffered chunks the engine
\* shows "No audio captured" and returns to Idle, having written no WAV,
\* invoked no encoder and dispatched no upload or cleanup task.
C15_EmptySession == []C15_NoOutput /\ [][C15_EmptyStep]_vars

C15_Witness ==
    /\ status = "No audio captured"
    /\ pc = "idle_check"
    /\ session = 1
    /\ appended = 0
    /\ total_chunks = 0
    /\ wavWritten = {}
    /\ NoThreadsOf(1)

\* ---- C16

\* where each step that calls hooks leads when no hook fails
HookedNext ==
    [init |-> {"idle_check"}, idle_read |-> {"idle_check", "rec_check"},
     rec_check |-> {"rec_read"}, rec_read |-> {"rec_check"},
     finalize |-> {"idle_check"}, encode |-> {"idle_check"},
     fanout |-> {"idle_check"}]

\* a step in which a hook raised ends where it ends without the failure, with
\* the read counted, the chunk kept and the threads started all the same
C16_SameStep ==
    (hookRaised' /\ pc' # pc) =>
        /\ pc \in DOMAIN HookedNext
        /\ pc' \in HookedNext[pc]
        /\ pc \in {"idle_read", "rec_read"} => reads' = reads + 1
        /\ pc = "rec_read" =>
            Len(chunks') = Len(chunks) + (IF timed_out THEN 0 ELSE 1)
        /\ pc = "fanout" => /\ Len(threads') = Len(threads) + 5
                            /\ OneThreadEach(session)'
        /\ pc = "encode" => session \in encoderFailed'

C16_NeverAborts == hookRaised => pc # "raised"

\* C16: an exception raised by set_status, set_status_color or set_bar is
\* swallowed: it never ends the loop, and the step in which it happens reads,
\* buffers, encodes and dispatches exactly as it does when the hook succeeds
\* or is absent.
C16_HooksSwallowed == []C16_NeverAborts /\ [][C16_SameStep]_vars

C16_Witness ==
    /\ hooks = "faulty"
    /\ hookRaised
    /\ pc = "idle_check"
    /\ session = 2
    /\ OneThreadEach(1)
    /\ OneThreadEach(2)
    /\ status = "Waiting For Audio"

\* ---- C17

\* the step in which a read fails ends the loop with the stream closed and
\* starts, writes and encodes nothing
C17_FaultStep ==
    (pc \in {"idle_read", "rec_read"} /\ pc' = "raised") =>
        /\ ~streamOpen'
        /\ threads' = threads
        /\ wavWritten' = wavWritten
        /\ encoderCalled' = encoderCalled
        /\ disk' = disk

\* once the exception has left run_forever the stream is closed, the engine
\* takes no further step, and a session interrupted in its recording loop has
\* no WAV and no thread
C17_Propagated ==
    pc = "raised" =>
        /\ ~streamOpen
        /\ ~ENABLED Engine
        /\ (session >= 1 /\ exitBy = "none") =>
            /\ session \notin wavWritten
            /\ NoThreadsOf(session)

\* C17: a failing capture read, in Idle or in Recording, ends the loop and
\* leaves run_forever as an exception, with the stream closed on the way out
\* and no upload or cleanup task dispatched for the interrupted session.
C17_CaptureFault == []C17_Propagated /\ [][C17_FaultStep]_vars

C17_Witness ==
    /\ pc = "raised"
    /\ ~streamOpen
    /\ session = 2
    /\ exitBy = "none"
    /\ appended >= 1
    /\ OneThreadEach(1)
    /\ NoThreadsOf(2)

\* ---- C18

\* the last thread started is a heartbeat
HeartbeatDispatched ==
    /\ Len(threads') = Len(threads) + 1
    /\ threads'[Len(threads')].target = "heartbeat"

\* a heartbeat is dispatched by the Idle loop test only, more than 600 seconds
\* after the marker, after the previous heartbeat and after the end of the
\* last recording, and it sets the marker to the time of the dispatch
C18_DispatchStep ==
    HeartbeatDispatched =>
        /\ pc = "idle_check"
        /\ pc' = "idle_read"
        /\ now - last_api_attempt > 600
        /\ last_api_attempt' = now
        /\ lastBeat = 0 \/ now - lastBeat > 600
        /\ lastEnd = 0 \/ now - lastEnd > 600

\* the end of a recording session sets the marker
C18_EndRefreshes ==
    (pc \in {"finalize", "encode", "fanout"} /\ pc' = "idle_check") =>
        last_api_attempt' = now

\* with an empty API key no heartbeat has sent a request
C18_BlankKey ==
    appcfg.bcfy.api_key = Blank =>
        \A i \in 1..Len(threads) :
            threads[i].target = "heartbeat" => threads[i].sent = <<>>

\* C18: a heartbeat is dispatched only from the Idle loop and only when more
\* than 600 seconds have passed since the last-API-attempt marker; the
\* dispatch and the end of every recording session refresh the marker, so two
\* dispatches are more than 600 seconds apart and none comes within 600
\* seconds of the end of a recording; with an empty API key the heartbeat
\* sends no request.
C18_Heartbeat ==
    /\ []C18_BlankKey
    /\ [][C18_DispatchStep]_vars
    /\ [][C18_EndRefreshes]_vars

C18_Witness ==
    /\ appcfg.bcfy.api_key = Blank
    /\ Cardinality(ThreadsOf(0, "heartbeat")) = 2
    /\ \A i \in ThreadsOf(0, "heartbeat") : threads[i].st = "skipped"
    /\ session = 1
    /\ lastEnd > 0
    /\ lastBeat > lastEnd + 600

\* ------------------------------------------------------------------ C19

\* the level a recording tick shows for chunk c (engine.py:177)
RecLevel(c) == IF peak(c) = 0 THEN 1 ELSE level_ui_scale(c)

\* a recording tick shows a level whatever the chunk
C19_RecordingEveryTick ==
    \A c \in Peaks : RecTick(c) => emitted' = RecLevel(c) /\ emitted' > 0

\* C19 as stated: in Idle a zero-peak chunk shows 1, a non-silent chunk shows
\* scaleLevel on the 6th, 12th, ... idle tick and nothing on any other tick;
\* in Recording every tick shows 1 or scaleLevel.
C19_LevelCadence ==
    /\ [][\A c \in Peaks : IdleTick(c) =>
            emitted' = IF peak(c) = 0 THEN 1
                       ELSE IF idleTicks' % 6 = 0 THEN level_ui_scale(c)
                       ELSE 0]_vars
    /\ [][C19_RecordingEveryTick]_vars

\* idle tick n is due for a scaleLevel: the 7th tick or later when none was
\* shown yet, else 6 or more ticks after the last one shown
ScaleDue(n, shown) ==
    IF shown = <<>> THEN n >= 7 ELSE n - shown[Len(shown)] >= 6

\* the first idle scaleLevel comes at the 7th idle tick or later, and two of
\* them are at least 6 idle ticks apart
C19_Spacing ==
    \A k \in 1..Len(scaleTicks) :
        IF k = 1 THEN scaleTicks[k] >= 7
        ELSE scaleTicks[k] - scaleTicks[k - 1] >= 6

\* C19 (amended): in Idle a zero-peak chunk shows 1 on that tick; a non-silent
\* chunk shows scaleLevel exactly when no scaleLevel was shown yet and it is
\* the 7th idle tick or later, or when at least 6 idle ticks (counted over
\* silent chunks and across recordings) have passed since the last scaleLevel
\* shown in Idle, and shows nothing otherwise; in Recording every tick shows 1
\* for a zero-peak chunk and scaleLevel otherwise.
C19_CounterCadence ==
    /\ [][\A c \in Peaks : IdleTick(c) =>
            emitted' = IF peak(c) = 0 THEN 1
                       ELSE IF ScaleDue(idleTicks', scaleTicks)
                            THEN level_ui_scale(c)
                       ELSE 0]_vars
    /\ [][C19_RecordingEveryTick]_vars
    /\ []C19_Spacing

C19_Witness ==
    /\ scaleTicks = <<7, 13>>
    /\ idleTicks = 13
    /\ emitted = level_ui_scale(1000)
    /\ session = 0

\* ------------------------------------------------------------------ C20

\* the requests of the given method thread i has issued
Requests(i, method) ==
    {k \in 1..Len(threads[i].sent) : threads[i].sent[k].method = method}

\* the destination's own test finds every required field (broadcastify.py:34,
\* rdio.py:26, openmhz.py:18)
FullyConfigured(d) ==
    CASE d = "bcfy" -> BcfyConfigured(clients.bcfy)
      [] d \in {"rdio", "icad"} -> RdioMissing(clients[d]) = {}
      [] d = "openmhz" -> OpenMHzConfigured(clients.openmhz)

\* a destination thread that has ended for a configured destination has issued
\* its one upload request
C20_ExactlyOne ==
    \A i \in 1..Len(threads) :
        (/\ threads[i].target \in Destinations
         /\ FullyConfigured(threads[i].target)
         /\ threads[i].st \in ThreadEnded)
        => Cardinality(Requests(i, "POST")) = 1

\* no thread issues a second upload request, and Broadcastify's PUT is the
\* only other request
C20_AtMostOne ==
    \A i \in 1..Len(threads) :
        /\ Cardinality(Requests(i, "POST")) <= 1
        /\ Cardinality(Requests(i, "PUT"))
             <= (IF threads[i].target = "bcfy" THEN 1 ELSE 0)
        /\ Requests(i, "PUT") # {} =>
             threads[i].sent[1].method = "POST" /\ Len(threads[i].got) = 1

\* a thread that has ended, by a failure or otherwise, does nothing further
C20_NoRetry ==
    \A i \in 1..Len(threads) :
        threads[i].st \in ThreadEnded => threads'[i] = threads[i]

\* C20: for every finalized recording each fully configured destination makes
\* exactly one upload attempt, and after a failed attempt (a non-success
\* status or a request error) it issues no further request for that recording.
C20_OneAttemptNoRetry ==
    /\ []C20_ExactlyOne
    /\ []C20_AtMostOne
    /\ [][C20_NoRetry]_vars

\* the part that holds: at most one attempt, and none after a failure
C20_NeverTwice ==
    /\ []C20_AtMostOne
    /\ [][C20_NoRetry]_vars

\* an OpenMHz thread, configured, that raised before any request
C20_NoAttempt ==
    \E i \in ThreadsOf(1, "openmhz") :
        /\ OpenMHzConfigured(clients.openmhz)
        /\ ~IsFloat(clients.openmhz.freq_mhz)
        /\ threads[i].st = "raised"
        /\ threads[i].sent = <<>>

\* ------------------------------------------------------------------ C21

Layers == {"gui", "web"}

\* a level update reaches the layers
LevelStep == \E l \in Levels : SetLevel(l)

\* the squelch of layer y closes, or opens, in this step
Closes(y) == ui[y].open /\ ~ui'[y].open
Opens(y) == ~ui[y].open /\ ui'[y].open

\* the update's percentage lies at or above lo and below hi, and leaves the
\* indicator as it was
Holds(y, lo, hi) ==
    (lo <= ui'[y].pct /\ ui'[y].pct < hi) => ui'[y].open = ui[y].open

\* an update on threshold 0 leaves the indicator open
C21_ZeroOpen ==
    \A y \in Layers :
        (SquelchThreshold(ui.thr) = 0 /\ ui'[y] # ui[y]) => ui'[y].open

\* C21 as stated: with thr > 0 an open indicator closes only on an update
\* below thr - 3, a closed one opens only on an update at or above thr + 3,
\* and an update between the two changes nothing; with thr = 0 an update
\* leaves the indicator open.
C21_Hysteresis ==
    [][LevelStep =>
        LET thr == SquelchThreshold(ui.thr)
        IN  /\ C21_ZeroOpen
            /\ thr > 0 => \A y \in Layers :
                /\ Closes(y) => ui'[y].pct < thr - sql_hyst
                /\ Opens(y) => ui'[y].pct >= thr + sql_hyst
                /\ Holds(y, thr - sql_hyst, thr + sql_hyst)]_vars

\* C21 (amended): with thr > 0 an open indicator closes only on an update whose
\* percentage is below max(0, thr - 3), a closed one opens only on an update
\* whose percentage is at least min(100, thr + 3), and an update at or above
\* the first and below the second never changes the indicator; with thr = 0
\* every update leaves the indicator open.
C21_ClampedHysteresis ==
    [][LevelStep =>
        LET thr == SquelchThreshold(ui.thr)
            lo == Max(0, thr - sql_hyst)
            hi == Min(100, thr + sql_hyst)
        IN  /\ C21_ZeroOpen
            /\ thr > 0 => \A y \in Layers :
                /\ Closes(y) => ui'[y].pct < lo
                /\ Opens(y) => ui'[y].pct >= hi
                /\ Holds(y, lo, hi)]_vars

\* on threshold 98 both indicators have opened at 100 percent
C21_Witness ==
    /\ ui.thr = 98
    /\ \A y \in Layers : ui[y].pct = 100 /\ ui[y].open

\* ------------------------------------------------------------------ C22

Abs(x) == IF x < 0 THEN 0 - x ELSE x

\* p is the integer nearest to n / d (either one on a tie), d > 0
Nearest(p, n, d) == 2 * Abs(d * p - n) <= d

\* what the display contract makes of the number v / 1000: the percentages it
\* allows
ContractPercents(v) ==
    LET db == Max(DB_MIN, Min(DB_MAX, v))
    IN  {Max(0, Min(100, p)) : p \in
            {q \in 0..150 :
                IF 0 <= v /\ v <= 1500 THEN Nearest(q, v * 100, 1000)
                ELSE IF v < 0
                THEN Nearest(q, (db - DB_MIN) * 100, DB_MAX - DB_MIN)
                ELSE Nearest(q, Min(v, 150000), 1000)}}

\* the two layers show the same percentage, within [0, 100], and the same
\* squelch indicator
C22_SameDisplay ==
    /\ ui.gui.pct = ui.web.pct
    /\ ui.gui.open = ui.web.open
    /\ ui.gui.pct \in 0..100

\* a numeric level update stores a percentage the contract allows
C22_Mapping ==
    \A l \in Levels :
        (SetLevel(l) /\ l.kind = "num") =>
            \A y \in Layers : ui'[y].pct \in ContractPercents(l.v)

\* C22: given the same threshold and the same sequence of level updates the
\* desktop and the web layer show the same percentage and the same squelch
\* indicator; the percentage is the value times 100 for a value in [0.0, 1.5],
\* the linear image in [0, 100] of [-80, 0] dB for a negative value, and the
\* value itself otherwise, each rounded and clamped to [0, 100].
C22_SharedDisplay ==
    /\ []C22_SameDisplay
    /\ [][C22_Mapping]_vars

\* both layers show 50 percent, which only the decibel mapping yields
C22_Witness ==
    /\ ui.gui.pct = 50
    /\ ui.web.pct = 50
    /\ ui.thr = 75
    /\ ~ui.gui.open
    /\ ~ui.web.open

\* ------------------------------------------------------------------ C23

\* the files of session sid in the working directory
FilesOf(sid) == {a \in {"wav", "mp3", "m4a"} : <<NameOf(sid), a>> \in disk}

\* the cleanup tasks that have not come to their removals
CleanupsAhead ==
    {i \in 1..Len(threads) :
        threads[i].target = "cleanup" /\ threads[i].st \in {"pending", "sleeping"}}

C24_NoPartialFiles ==
    \A sid \in encoderFailed :
        (pc \in {"idle_check", "idle_read"} /\ sid <= session) => FilesOf(sid) = {}

\* the M4A pass failed on a sound file system: the engine is back in Idle and
\* the session's WAV and MP3 are still there
C24_LeftBehind ==
    /\ fs = "sound"
    /\ pc = "idle_check"
    /\ 1 \in encoderFailed
    /\ FilesOf(1) = {"wav", "mp3"}

\* ------------------------------------------------------------------ C25

ShownRecording == Shown("Recording", "green")
ShownTimedOut == Shown("RECORDING TIMED OUT", "red")
ShownAtEnd ==
    {Shown("No audio captured", "red"), Shown("Encode failed", "red"),
     Shown("Waiting For Audio", "blue")}

\* what a session has surfaced so far: "Recording" first and only first, then
\* "RECORDING TIMED OUT" any number of times, then at most one closing status
C25_Shape ==
    surfaced # <<>> =>
        /\ surfaced[1] = ShownRecording
        /\ \A k \in 2..Len(surfaced) :
            \/ surfaced[k] = ShownTimedOut
            \/ k = Len(surfaced) /\ surfaced[k] \in ShownAtEnd

\* the session has surfaced its closing status
C25_Closed == surfaced[Len(surfaced)] \in ShownAtEnd

\* C25 as stated: every recording session surfaces "Recording" (green) first,
\* then zero or more "RECORDING TIMED OUT" (red), never "Recording" again, and
\* has surfaced exactly one closing status once it is over, however it ended.
C25_StatusLifecycle ==
    /\ C25_Shape
    /\ (session >= 1 /\ pc \notin SessionPcs) => C25_Closed

\* C25 (amended): every recording session surfaces "Recording" (green) first,
\* then zero or more "RECORDING TIMED OUT" (red), and never "Recording" again;
\* a session that returns to the Idle loop has surfaced exactly one of "No
\* audio captured", "Encode failed" or "Waiting For Audio", as its last
\* status; a session cut short by a capture fault or a failed WAV write
\* surfaces no closing status.
C25_LifecycleUnlessFault ==
    /\ []C25_Shape
    /\ []((session >= 1 /\ pc \in IdlePcs \cup {"returned"}) => C25_Closed)
    /\ [][(pc \in SessionPcs /\ pc' = "raised") =>
            (surfaced' = surfaced /\ ~C25_Closed)]_vars

C25_Witness ==
    /\ pc = "idle_check"
    /\ session = 1
    /\ Len(surfaced) >= 3
    /\ surfaced[2] = ShownTimedOut
    /\ surfaced[Len(surfaced)] = Shown("Waiting For Audio", "blue")

\* ------------------------------------------------------------------ C26

\* the positions of the buffer that the finalizing step drops
Dropped == (Len(chunks') + 1)..Len(chunks)

\* the reads of the quiet run the recording loop ended on
ClosingRun == (reads - quiet_chunks + 1)..reads

\* the finalizing step drops only below-threshold chunks of the closing run
C26_DropsSilence ==
    (pc = "finalize" /\ pc' = "encode") =>
        \A k \in Dropped :
            /\ BelowThreshold(chunks[k], cfg.record_threshold)
            /\ taken[k] \in ClosingRun

\* C26: in every finalized recording each chunk the trailing-silence trim drops
\* is a below-threshold chunk of the silence run that ended the session; no
\* chunk at or above the threshold is dropped, whether the session ended on
\* silence, timed out before the silence run, or ended by a stop request.
C26_TrimOnlySilence == [][C26_DropsSilence]_vars

\* ------------------------------------------------------------------ C27

\* C27: throughout a recording session, the trim included, the buffer holds
\* the first reads made since the transition to Recording, one chunk per read
\* and in read order: the k-th buffered chunk comes from the k-th read after
\* the transition, so neither of the two chunks that satisfied the debounce is
\* in it, and no chunk is in it twice or out of order.
C27_BufferIsPrefix ==
    pc \in SessionPcs =>
        /\ Len(taken) = Len(chunks)
        /\ Len(taken) <= reads - recFrom
        /\ \A k \in 1..Len(taken) : taken[k] = recFrom + k

\* a session that timed out, then ended on silence and was trimmed: the reads
\* after the transition outnumber the buffer by more than the trim took
C27_Witness ==
    /\ pc = "encode"
    /\ timed_out
    /\ exitBy = "silence"
    /\ Len(chunks) >= 1
    /\ Len(chunks) < appended
    /\ reads - recFrom > appended

\* ------------------------------------------------------------------ C28

\* the upload threads of fully configured destinations
ConfiguredUploads ==
    {i \in 1..Len(threads) :
        threads[i].target \in Destinations /\ FullyConfigured(threads[i].target)}

\* thread i has yet to open its artifact: it has not started, or it is a
\* Broadcastify upload waiting for the answer to its POST (broadcastify.py:39-65)
YetToRead(i) ==
    \/ threads[i].st = "pending"
    \/ threads[i].target = "bcfy" /\ threads[i].st = "posted"

\* thread i opens its artifact in this step: a Rdio or OpenMHz upload starting
\* with fields that pass its tests, or a Broadcastify upload whose POST was
\* accepted with an upload URL
OpensArtifact(i) ==
    \/ /\ threads[i].target \in {"rdio", "icad"}
       /\ threads[i].st = "pending"
       /\ threads'[i].st # "pending"
    \/ /\ threads[i].target = "openmhz"
       /\ threads[i].st = "pending"
       /\ threads'[i].st # "pending"
       /\ IsFloat(clients.openmhz.freq_mhz)
    \/ /\ threads[i].target = "bcfy"
       /\ threads[i].st = "posted"
       /\ Len(threads'[i].got) > Len(threads[i].got)
       /\ LET a == threads'[i].got[Len(threads'[i].got)]
          IN  BcfyAfterPost(a.status, a.body, TRUE).put

\* an upload that opens its artifact finds it on disk
C28_FoundPresent ==
    \A i \in ConfiguredUploads :
        OpensArtifact(i) => <<NameOf(threads[i].sid), Artifact(threads[i].target)>> \in disk

\* the cleanup task removes nothing that an upload of its recording has yet to
\* read
C28_NoneAhead ==
    \A c \in 1..Len(threads) :
        (/\ threads[c].target = "cleanup"
         /\ threads[c].st = "sleeping"
         /\ threads'[c].st = "done")
        => \A i \in ConfiguredUploads :
                threads[i].sid = threads[c].sid => ~YetToRead(i)

\* C28: for every finalized recording and every interleaving of its four
\* upload tasks with its cleanup task, an upload task of a fully configured
\* destination that opens its MP3 or M4A finds the file present, and the
\* cleanup task deletes no artifact that an upload task of the same recording
\* has yet to read.
C28_ReadBeforeDelete ==
    /\ [][C28_FoundPresent]_vars
    /\ [][C28_NoneAhead]_vars

\* the cleanup task is done and the Broadcastify upload of the same recording
\* raised on opening the MP3 after its POST was accepted
C28_GoneBeforeRead ==
    \E c \in ThreadsOf(1, "cleanup"), i \in ThreadsOf(1, "bcfy") :
        /\ threads[c].st = "done"
        /\ <<NameOf(1), "mp3">> \notin disk
        /\ threads[i].st = "raised"
        /\ Len(threads[i].got) = 1
        /\ BcfyAfterPost(threads[i].got[1].status, threads[i].got[1].body, TRUE).put

\* ------------------------------------------------------------------ C29

\* the cleanup tasks that finish in this step
Finishing ==
    {c \in 1..Len(threads) :
        threads[c].target = "cleanup" /\ threads[c].st = "sleeping"
            /\ threads'[c].st = "done"}

\* the sessions, other than sid, with an upload task that has yet to read
PendingOthers(sid) ==
    {threads[i].sid : i \in {j \in 1..Len(threads) :
        /\ threads[j].target \in Destinations
        /\ threads[j].sid # sid
        /\ YetToRead(j)}}

\* two recordings whose WAV was written have different names
C29_DistinctNames ==
    \A m, n \in names : m[1] # n[1] => m[2] # n[2]

\* writing a WAV and encoding it replaces no file that is there
C29_NoOverwrite ==
    /\ (pc = "finalize" /\ pc' = "encode") =>
            \A a \in {"wav", "mp3", "m4a"} : <<wav_name(now, tenths), a>> \notin disk
    /\ (pc = "encode" /\ pc' # pc) => \A a \in {"mp3", "m4a"} :
            <<NameOf(session), a>> \notin disk

\* a cleanup task removes no file of another recording whose uploads have yet
\* to read
C29_NoForeignDelete ==
    \A c \in Finishing : \A s \in PendingOthers(threads[c].sid) :
        \A a \in {"mp3", "m4a"} : <<NameOf(s), a>> \in disk => <<NameOf(s), a>> \in disk'

\* C29: any two distinct finalized recordings of one engine have different
\* WAV/MP3/M4A names, so that finalizing a recording overwrites no file and
\* the cleanup task of one recording deletes no artifact of another recording
\* whose upload tasks are still pending.
C29_UniqueNames ==
    /\ []C29_DistinctNames
    /\ [][C29_NoOverwrite]_vars
    /\ [][C29_NoForeignDelete]_vars

\* two recordings were finalized under one name, and the cleanup task of the
\* first has removed the artifacts of the second, whose uploads have not run
C29_SharedName ==
    /\ session = 2
    /\ wavWritten = {1, 2}
    /\ NameOf(1) = NameOf(2)
    /\ \E c \in ThreadsOf(1, "cleanup") : threads[c].st = "done"
    /\ \E c \in ThreadsOf(2, "cleanup") : threads[c].st = "pending"
    /\ \A i \in ThreadsOf(2, "rdio") : threads[i].st = "pending"
    /\ FilesOf(2) = {}

\* ------------------------------------------------------------------ C30

\* the engine threads inside run_forever, each with a capture stream open
ExecutingNow == {i \in DOMAIN ctl.workers : Executing(ctl, i)}

\* C30, first part: at any time at most one engine thread is executing
\* run_forever, so at most one capture stream is open.
C30_OneExecuting == Cardinality(ExecutingNow) <= 1

\* C30, second part: start() while the held engine thread is alive creates
\* no engine and no thread.
C30_StartOnRunning ==
    [][(ControllerStart /\ ~Ctl_creates(ctl)) => ctl' = ctl]_vars

\* C30: across every sequence of start, stop and patch_config calls, a stop
\* whose join timed out included, at most one engine thread is executing
\* run_forever at any time, and start on a running engine creates nothing.
C30_SingleEngine == []C30_OneExecuting /\ C30_StartOnRunning

\* a stop's join timed out, the controller started a new engine, and the old
\* thread is still in its read or encode while the new one has its stream open
C30_TwoEngines ==
    \E i, j \in ExecutingNow :
        /\ i < j
        /\ ctl.workers[i].stop
        /\ ctl.engine_thread = j

\* ------------------------------------------------------------------ C31

\* no call of the controller is under way and no thread step is pending: every
\* started thread has entered run_forever or ended, every stopped engine's
\* thread has ended
Settled ==
    /\ ctl.call = "none"
    /\ \A i \in DOMAIN ctl.workers :
          /\ ctl.workers[i].at # "started"
          /\ ctl.workers[i].stop => ctl.workers[i].at = "finished"

\* the thread the controller holds is alive
HeldAlive == ctl.engine_thread # 0 /\ Alive(ctl, ctl.engine_thread)

\* C31: once the calls and the pending thread steps are over, state.running is
\* true exactly when the controller's current engine thread is alive.
C31_RunningTruthful == Settled => (ctl.running <=> HeldAlive)

\* the held engine is capturing while the state says not running: the thread
\* of an earlier engine, given up by a timed-out join, ended after the new
\* thread had begun
C31_StaleStopped ==
    /\ Settled
    /\ HeldAlive
    /\ Executing(ctl, ctl.engine_thread)
    /\ ~ctl.running
    /\ \E i \in DOMAIN ctl.workers : i < ctl.engine_thread /\ ctl.workers[i].stop

\* ------------------------------------------------------------------ C32

\* run_forever has returned or raised
Exited == pc \in {"returned", "raised"}

\* C32, the exits of a stream that was opened: leaving run_forever after a
\* stop request or a failing read closes the stream and terminates the backend
C32_ClosedOnceOpened ==
    [][(streamOpen /\ ~Exited /\ Exited') => (~streamOpen' /\ ~pa')]_vars

\* C32: whenever run_forever has returned or raised, a failing open included,
\* the stream is closed and the audio backend instance is terminated.
C32_ReleasedOnExit == Exited => (~streamOpen /\ ~pa)

\* open failed after pyaudio.PyAudio() was made: run_forever has raised before
\* any read, and the backend instance is still held
C32_BackendLeaked == pc = "raised" /\ reads = 0 /\ ~streamOpen /\ pa

\* ------------------------------------------------------------------ C33

\* the percentage a layer shows for the level of a non-silent chunk c
ShownFor(c) == Web_normalize_level(BarLevel(level_ui_scale(c))).pct

\* a tick of the engine on an all-zero chunk
SilentTick == \E c \in Peaks : peak(c) = 0 /\ (IdleTick(c) \/ RecTick(c))

\* C33: for a threshold in [4, 100], after the engine reports the level of an
\* all-zero chunk each layer's percentage is at most the percentage it shows
\* for any non-silent chunk, and its squelch indicator is closed.
C33_SilentReadsLow ==
    [][(SilentTick /\ ui.thr \in 4..100) =>
          /\ \A c \in Peaks : peak(c) # 0 => ui'.web.pct <= ShownFor(c)
          /\ \A c \in Peaks : peak(c) # 0 => ui'.gui.pct <= ShownFor(c)
          /\ ~ui'.web.open
          /\ ~ui'.gui.open]_vars

\* the engine's last tick read an all-zero chunk and gave set_bar the value 1:
\* both layers show 100 percent with the squelch open, on a threshold that the
\* chunk is far below
C33_SilentShowsFull ==
    /\ emitted = 1
    /\ ui.thr \in 4..100
    /\ ui.web = [pct |-> 100, open |-> TRUE]
    /\ ui.gui = [pct |-> 100, open |-> TRUE]

\* ------------------------------------------------------------------ C34

\* the step stops the held engine and starts a new one, at once or after the
\* join that the step begins
Restarts == ctl'.call = "join_start" \/ Len(ctl'.workers) > Len(ctl.workers)

C34_NoRestart ==
    /\ ctl.call = "none"
    /\ ctl.patch = {"vox_silence_time"}
    /\ ctl.running
    /\ Len(ctl.workers) = 1
    /\ Executing(ctl, 1)

\* ------------------------------------------------------------------ C35

\* destination d passes its own configuration test on the values of AppCfg a
ConfiguredIn(a, d) ==
    LET c == ClientsOf(a)
    IN  CASE d = "bcfy" -> BcfyConfigured(c.bcfy)
          [] d = "rdio" -> RdioMissing(c.rdio) = {}
          [] d = "openmhz" -> OpenMHzConfigured(c.openmhz)

\* the upload threads of recordings finalized after the patch that have ended
EndedAfterPatch ==
    {i \in 1..Len(threads) :
        /\ ctl.patchedAt >= 0
        /\ threads[i].sid > ctl.patchedAt
        /\ threads[i].target \in PatchedDestinations
        /\ threads[i].st \in ThreadEnded}

\* C35: after patch_config changed the destinations of a running engine, the
\* upload tasks of the recordings finalized from then on go by the patched
\* values: a destination the patch configured is attempted, one it made blank
\* is skipped.
C35_PatchTakesEffect ==
    \A i \in EndedAfterPatch :
        threads[i].st = "skipped" <=> ~ConfiguredIn(appcfg, threads[i].target)

\* the patch configured every destination before the recording was finalized,
\* and the recording's Broadcastify task skipped its upload on the blank key
\* the engine's client was built with
C35_PatchIgnored ==
    \E i \in EndedAfterPatch :
        /\ appcfg = PatchedAppCfg
        /\ threads[i].target = "bcfy"
        /\ threads[i].st = "skipped"
        /\ threads[i].sent = <<>>

\* the patch blanked every destination, and a later recording was still sent
\* to the old Rdio URL
C35_OldValuesUsed ==
    \E i \in EndedAfterPatch :
        /\ appcfg = DefaultAppCfg
        /\ threads[i].target = "rdio"
        /\ Len(threads[i].sent) = 1
        /\ threads[i].sent[1].url = Strip(PatchedAppCfg.rdio.api_url)

\* ------------------------------------------------------------------ C36

\* what the engine reads of a configuration: the audio values and, through
\* the clients it builds, the fields of the four destinations, and save_audio
EngineReads(c, a) ==
    [audio |-> c, clients |-> ClientsOf(a), save_audio |-> a.save_audio]

\* C36, without the second sink: the audio values, save_audio and the fields
\* of Broadcastify, Rdio and OpenMHz come back as they were saved.
C36_OthersRoundTrip ==
    reloaded # <<>> =>
        /\ reloaded[1].audio = cfg
        /\ reloaded[1].app.save_audio = appcfg.save_audio
        /\ \A d \in {"bcfy", "rdio", "openmhz"} :
              ClientsOf(reloaded[1].app)[d] = ClientsOf(appcfg)[d]

\* C36: save_config followed by load_config gives a configuration equal to
\* the saved one in every field the engine reads, the four fields of the
\* second Rdio-compatible sink included.
C36_RoundTrip ==
    reloaded # <<>> =>
        EngineReads(reloaded[1].audio, reloaded[1].app) = EngineReads(cfg, appcfg)

\* a configured second sink was saved and loaded: the engine built from the
\* loaded configuration has a blank one
C36_SinkLost ==
    /\ reloaded # <<>>
    /\ RdioMissing(ClientsOf(appcfg).icad) = {}
    /\ ClientsOf(reloaded[1].app).icad.api_url = Blank

\* ------------------------------------------------------------------ C37

\* the threads a step starts
Started == (Len(threads) + 1)..Len(threads')

\* the length of the chunks kept after the trim, which the engine still holds
\* when it fans out: chunks x frames per chunk / negotiated rate
KeptSeconds == Seconds(Len(chunks) * chunk_frames(capture.rate, cfg), capture.rate)

\* the tasks a fan-out starts are handed one duration, the kept length, and
\* OpenMHz the time the session began
HandedKept ==
    \A i \in Started :
        /\ threads'[i].target = "bcfy" =>
              SameSeconds(threads'[i].args[1], KeptSeconds)
        /\ threads'[i].target = "openmhz" =>
              /\ threads'[i].args[1] = start_time
              /\ SameSeconds(threads'[i].args[2], KeptSeconds)
        /\ \A j \in Started :
              (threads'[i].target = "bcfy" /\ threads'[j].target = "openmhz") =>
                  threads'[i].args[1] = threads'[j].args[2]

\* what the requests carry is what the tasks were handed: callDuration and
\* call_length the duration, stop_time the start time plus the duration
FieldsCarryArgs ==
    \A i \in 1..Len(threads) : \A k \in 1..Len(threads[i].sent) :
        LET a == threads[i].args
            r == threads[i].sent[k]
        IN  /\ (threads[i].target = "bcfy" /\ r.method = "POST") =>
                  r.fields.callDuration = a[1]
            /\ threads[i].target = "openmhz" =>
                  /\ r.fields.call_length = a[2]
                  /\ r.fields.start_time = a[1]
                  /\ SameSeconds(r.fields.stop_time,
                                 PlusSeconds(Seconds(a[1], 10), a[2]))

\* C37: the duration handed to the Broadcastify and OpenMHz tasks is one value,
\* the number of chunks kept after the trim times the frames per chunk over
\* the negotiated rate, for mono, left and right; OpenMHz is handed the time
\* the session began
C37_Duration == [][pc = "fanout" => HandedKept]_vars

\* C37, the requests: every Broadcastify and OpenMHz request carries the
\* duration its task was handed, and OpenMHz the start time plus that duration
C37_Requests == FieldsCarryArgs

\* C37 while the stream's channels are those of the configured in_channel
C37_DurationAsOpened ==
    [][(pc = "fanout" /\ capture.channels = Channels(capture.in_channel)) => HandedKept]_vars

\* a mono stream whose recording was finalized as "left": its tasks hold half
\* the kept length
C37_Halved ==
    \E i \in 1..Len(threads) :
        /\ threads[i].target = "openmhz"
        /\ threads[i].st = "posted"
        /\ capture.channels = 1
        /\ capture.in_channel = "left"
        /\ threads[i].args[2].num > 0
        /\ 2 * threads[i].args[2].num = chunk_frames(capture.rate, cfg)

\* a stereo stream finalized as its own channel: an upload posted with the
\* kept length
C37_StereoKept ==
    \E i \in 1..Len(threads) :
        /\ threads[i].target = "openmhz"
        /\ threads[i].st = "posted"
        /\ capture.channels = 2
        /\ capture.in_channel = "right"
        /\ threads[i].args[2].num = chunk_frames(capture.rate, cfg)

\* ------------------------------------------------------------------ C38

\* the clients add_client has made so far
BusClients == 1..Len(ctl.bus.q)

\* what client c was given, in the order it was given: what its generator
\* took, then what its queue holds
Given(c) == ctl.bus.got[c] \o ctl.bus.q[c]

\* every queue holds at most maxsize events
QueuesBounded == \A c \in BusClients : Len(ctl.bus.q[c]) <= maxsize

\* every client is given events in the order of their emit calls
InEmitOrder ==
    \A c \in BusClients : \A j, k \in 1..Len(Given(c)) :
        j < k => Given(c)[j] < Given(c)[k]

\* a removed client was given nothing emitted after its removal
NothingAfterRemoval ==
    \A c \in BusClients :
        ctl.bus.removedAt[c] >= 0 =>
            \A k \in 1..Len(Given(c)) : Given(c)[k] <= ctl.bus.removedAt[c]

\* emit can be called whatever the queues hold
EmitNeverBlocks == ctl.bus.emits < MaxEmits => ENABLED Emit

\* a step of emit touches no queue; a step of _fanout leaves a full queue as it
\* is and appends the event to every other queue of _queues
DropsForFullOnly ==
    /\ ctl'.bus.emits # ctl.bus.emits => ctl'.bus.q = ctl.bus.q
    /\ Len(ctl'.bus.pending) < Len(ctl.bus.pending) /\ ctl.bus.loop = ctl'.bus.loop =>
          \A c \in Members(ctl.bus.queues) :
              ctl'.bus.q[c] = IF Len(ctl.bus.q[c]) = maxsize
                              THEN ctl.bus.q[c]
                              ELSE Append(ctl.bus.q[c], Head(ctl.bus.pending))

\* C38: emit never blocks its caller; a client queue holds at most maxsize
\* events; a full queue drops the new event for that client only, what it holds
\* and every other client's delivery being unaffected; each client is given
\* its events in emit order; a removed client is given nothing emitted after
\* its removal
C38_BoundedNonBlocking ==
    /\ [](QueuesBounded /\ InEmitOrder /\ NothingAfterRemoval /\ EmitNeverBlocks)
    /\ [][DropsForFullOnly]_vars

\* an event was dropped for a client whose queue is full and still holds its
\* first events, while another client took it; a third event was emitted after
\* a removal
C38_DroppedForOne ==
    \E c, o \in BusClients :
        /\ c # o
        /\ ctl.bus.q[c] = <<1, 2>>
        /\ Len(ctl.bus.q[c]) = maxsize
        /\ 3 \in Members(ctl.bus.got[o])
        /\ ctl.bus.pending = <<>>
        /\ ctl.bus.removedAt[o] = 3
        /\ ctl.bus.emits = 4

====
